---- MODULE Spec2Model ----
(***************************************************************************)
(* awful_text_news: the retry/backoff decorator (src/api.rs), the bounded  *)
(* fan-out of per-article enrichment tasks (src/main.rs) and the outline   *)
(* document updates (src/outputs/indexes.rs), as one state machine.        *)
(***************************************************************************)
EXTENDS Integers, Sequences, FiniteSets, Bags, TLC

VARIABLES
    articles,      \* main: Vec<RawArticle> handed to the fan-out
    script,        \* per article: what the generation capability will answer
    tasks,         \* per article: the state of its async block
    results,       \* main: the Vec collected from buffer_unordered
    front_page,    \* main: FrontPage
    counts,        \* main: successful_count / failed_count
    mainpc,        \* main: position in main()
    history,       \* the earlier invocations of the program: how each ended
    api,           \* a stand-alone RetryAsk::ask call
    files,         \* the output directories and what they hold
    log,           \* tracing: the outcome of each output sink of this run
    clock          \* the local clock: the day and the second of the day

vars == <<articles, script, tasks, results, front_page, counts,
          mainpc, history, api, files, log, clock>>

----------------------------------------------------------------------------
(* Bounds of the model *)

MaxArticles == 2

CeilArticles == 13

MaxRuns == 2

MaxRetriesCfg == 6

MaxEditions == 3

MaxDates == 2

MaxLen == 3

(* Constants of the program *)

PARALLEL_BATCH_SIZE == 12

DEFAULT_MAX_RETRIES == 5

LOG_PREVIEW_MAX == 300

(* durations are in milliseconds *)
DEFAULT_BASE_DELAY_MS == 1000

MAX_DELAY_MS == 30000

MAX_JITTER_MS == 250

(* the width of the u32 that 1 << (attempt - 1) is computed in *)
U32_BITS == 32

----------------------------------------------------------------------------
(* Option<T> *)

None == [some |-> FALSE]

Some(x) == [some |-> TRUE, val |-> x]

Flatten(opts) ==
    LET F[k \in 0..Len(opts)] ==
            IF k = 0 THEN << >>
            ELSE IF opts[k].some THEN Append(F[k - 1], opts[k].val)
                 ELSE F[k - 1]
    IN F[Len(opts)]

----------------------------------------------------------------------------
(* Strings as UTF-8: a sequence of runs of n characters of w bytes each.   *)

RECURSIVE ByteLen(_)
ByteLen(s) ==
    IF s = << >> THEN 0 ELSE Head(s).w * Head(s).n + ByteLen(Tail(s))

RECURSIVE IsCharBoundary(_, _)
IsCharBoundary(s, k) ==
    IF k = 0 THEN TRUE
    ELSE IF s = << >> THEN FALSE
    ELSE LET span == Head(s).w * Head(s).n
         IN IF k <= span THEN k % Head(s).w = 0
            ELSE IsCharBoundary(Tail(s), k - span)

(* utils.rs truncate_for_log: &s[..max] panics when max is inside a        *)
(* character.                                                              *)
truncate_for_log(s, max) ==
    IF ByteLen(s) <= max
    THEN [panic |-> FALSE, keep |-> ByteLen(s), more |-> 0]
    ELSE IF IsCharBoundary(s, max)
         THEN [panic |-> FALSE, keep |-> max, more |-> ByteLen(s) - max]
         ELSE [panic |-> TRUE, keep |-> 0, more |-> 0]

----------------------------------------------------------------------------
(* models.rs NewsArticle: the source URL and the scraped text *)

Url(host, path) == [host |-> host, path |-> path]

Hosts == << <<"lite", "cnn", "com">>, <<"text", "npr", "org">>, <<"localhost">> >>

RawArticle(k) == [source |-> Url(Hosts[k], <<"article">>), content |-> <<"text", Hosts[k][1]>>]

----------------------------------------------------------------------------
(* Responses of the generation capability.  json is what                   *)
(* serde_json::from_str::<AwfulNewsArticle> makes of the text.             *)

JsonShapes == {"valid", "eof", "syntax", "data"}

ShortAscii == << [w |-> 1, n |-> 20] >>

LongAscii == << [w |-> 1, n |-> 301] >>

LongAligned == << [w |-> 2, n |-> 150], [w |-> 1, n |-> 5] >>

LongStraddle == << [w |-> 1, n |-> 299], [w |-> 2, n |-> 1] >>

Bodies == {ShortAscii, LongAscii, LongAligned, LongStraddle}

(* elements of the sub-collections: two entities of one name, two dates    *)
(* and two timeframes of one description                                   *)
TakeAwayPool == {"k1", "k2"}

EntityPool ==
    {[name |-> "n1", whatIsThisEntity |-> "x"],
     [name |-> "n1", whatIsThisEntity |-> "y"],
     [name |-> "n2", whatIsThisEntity |-> "x"]}

DatePool ==
    {[dateMentionedInArticle |-> "d1", descriptionOfWhyDateIsRelevant |-> "r1"],
     [dateMentionedInArticle |-> "d2", descriptionOfWhyDateIsRelevant |-> "r1"],
     [dateMentionedInArticle |-> "d1", descriptionOfWhyDateIsRelevant |-> "r2"]}

TimeframePool ==
    {[approximateTimeFrameStart |-> "s1", descriptionOfWhyTimeFrameIsRelevant |-> "r1"],
     [approximateTimeFrameStart |-> "s2", descriptionOfWhyTimeFrameIsRelevant |-> "r1"],
     [approximateTimeFrameStart |-> "s1", descriptionOfWhyTimeFrameIsRelevant |-> "r2"]}

(* the sub-collections of the JSON document of response id: each holds a   *)
(* repeated key, and the documents of the two responses to one article     *)
(* differ                                                                  *)
SampleDoc(id) ==
    [title |-> <<"T", "x", " ", "1", "!">>,
     category |-> IF id % 2 = 1 THEN 2 ELSE 1,
     keyTakeAways |-> IF id % 2 = 1 THEN <<"k1", "k1", "k2">> ELSE <<"k2", "k1", "k2">>,
     namedEntities |-> <<[name |-> "n1", whatIsThisEntity |-> "x"],
                         [name |-> "n2", whatIsThisEntity |-> "x"],
                         [name |-> "n1", whatIsThisEntity |-> "y"]>>,
     importantDates |-> <<[dateMentionedInArticle |-> "d1",
                           descriptionOfWhyDateIsRelevant |-> "r1"],
                          [dateMentionedInArticle |-> "d2",
                           descriptionOfWhyDateIsRelevant |-> "r1"]>>,
     importantTimeframes |-> <<[approximateTimeFrameStart |-> "s1",
                                descriptionOfWhyTimeFrameIsRelevant |-> "r1"],
                               [approximateTimeFrameStart |-> "s2",
                                descriptionOfWhyTimeFrameIsRelevant |-> "r1"]>>,
     tags |-> <<"t1", "t1">>]

Response(j, b, id) == [json |-> j, body |-> b, id |-> id, doc |-> SampleDoc(id)]

from_str(resp) ==
    IF resp.json = "valid"
    THEN [ok |-> TRUE,
          val |-> [source |-> None, content |-> None, payload |-> resp.id,
                   title |-> resp.doc.title, category |-> resp.doc.category,
                   keyTakeAways |-> resp.doc.keyTakeAways,
                   namedEntities |-> resp.doc.namedEntities,
                   importantDates |-> resp.doc.importantDates,
                   importantTimeframes |-> resp.doc.importantTimeframes,
                   tags |-> resp.doc.tags]]
    ELSE [ok |-> FALSE,
          category |-> CASE resp.json = "eof" -> "Eof"
                         [] resp.json = "syntax" -> "Syntax"
                         [] OTHER -> "Data"]

looks_truncated(e) == e.category = "Eof"

----------------------------------------------------------------------------
(* api.rs RetryAsk *)

NoRet == [set |-> FALSE]

(* delays: the pre-jitter delays computed so far by this call of ask;     *)
(* sleep: the duration handed to sleep() while the call is suspended       *)
RetryAskNew(max_retries, base_delay) ==
    [max_retries |-> max_retries, base_delay |-> base_delay,
     max_delay |-> MAX_DELAY_MS, attempt |-> 0, pc |-> "idle",
     calls |-> 0, sleeps |-> 0, delays |-> << >>, sleep |-> None, ret |-> NoRet]

(* ask(): attempt = 0 and the first inner.ask(text).await *)
RetryAskCall(r) ==
    [r EXCEPT !.attempt = 0, !.pc = "calling", !.calls = 1, !.sleeps = 0,
              !.delays = << >>, !.sleep = None, !.ret = NoRet]

(* 1 << n in a u32, as the exponent of the power of two it yields: with    *)
(* overflow checks the shift panics once n reaches the width, without them *)
(* the shift amount is taken modulo the width                              *)
shl(n, overflow_checks) ==
    IF n < U32_BITS THEN [panic |-> FALSE, exp |-> n]
    ELSE IF overflow_checks THEN [panic |-> TRUE]
    ELSE [panic |-> FALSE, exp |-> n % U32_BITS]

(* backoff_delay growing by base_delay each attempt instead of doubling *)
backoff_delay_linear(d, exp, max_delay) ==
    IF d * (exp + 1) > max_delay THEN max_delay ELSE d * (exp + 1)

(* base_delay.saturating_mul(2^exp), then the cap at max_delay.  The       *)
(* product is built by doubling, and the doubling stops as soon as it has  *)
(* passed max_delay, where the code replaces it by max_delay whatever it   *)
(* is: integers stay within the range of the model checker                 *)
RECURSIVE backoff_delay(_, _, _)
backoff_delay(d, exp, max_delay) ==
    IF d > max_delay THEN max_delay
    ELSE IF exp = 0 THEN d
    ELSE backoff_delay(2 * d, exp - 1, max_delay)

(* rng().random_range(0..=250): the two ends of the range *)
Jitters == {0, MAX_JITTER_MS}

RetryOnOk(r, resp) ==
    [r EXCEPT !.pc = "returned", !.ret = [set |-> TRUE, ok |-> TRUE, val |-> resp]]

(* the Err(e) arm of the loop: give up, or compute the delay and sleep *)
RetryOnErr(r, e, jitter_ms, overflow_checks) ==
    LET attempt == r.attempt + 1
        factor == shl(attempt - 1, overflow_checks)
        delay == backoff_delay(r.base_delay, factor.exp, r.max_delay)
    IN IF attempt > r.max_retries
       THEN [r EXCEPT !.attempt = attempt, !.pc = "returned",
                      !.ret = [set |-> TRUE, ok |-> FALSE, val |-> e]]
       ELSE IF factor.panic
       THEN [r EXCEPT !.attempt = attempt, !.pc = "panicked"]
       ELSE [r EXCEPT !.attempt = attempt, !.pc = "sleeping", !.sleeps = @ + 1,
                      !.delays = Append(@, delay), !.sleep = Some(delay + jitter_ms)]

(* sleep(delay).await is over: the loop calls inner.ask again *)
RetryWake(r) ==
    [r EXCEPT !.pc = "calling", !.calls = @ + 1, !.sleep = None]

(* ask_with_backoff: RetryAsk::new(client, 5, 1 s) and ask *)
ask_with_backoff ==
    RetryAskCall(RetryAskNew(DEFAULT_MAX_RETRIES, DEFAULT_BASE_DELAY_MS))

----------------------------------------------------------------------------
(* main.rs: the async block run for each article (lines 220-290) *)

PendingTask ==
    [pc |-> "pending", askNo |-> 0, ask |-> RetryAskNew(DEFAULT_MAX_RETRIES, DEFAULT_BASE_DELAY_MS),
     response_json |-> None, parsed |-> None, outcome |-> None]

(* the future is created and polled up to its first await: the first ask *)
Launch(t) ==
    [t EXCEPT !.pc = "running", !.askNo = 1, !.ask = ask_with_backoff]

(* Stamp that leaves the content unset *)
StampSourceOnly(a, raw) ==
    [a EXCEPT !.source = Some(raw.source)]

(* lines 246-247: stamp source and content on the parsed article *)
Stamp(a, raw) ==
    [a EXCEPT !.source = Some(raw.source), !.content = Some(raw.content)]

(* Itertools::unique_by on the field key: an element passes if no earlier  *)
(* one had its key                                                         *)
unique_by(q, key) ==
    LET F[k \in 0..Len(q)] ==
            IF k = 0 THEN << >>
            ELSE IF \E m \in 1..(k - 1) : q[m][key] = q[k][key] THEN F[k - 1]
                 ELSE Append(F[k - 1], q[k])
    IN F[Len(q)]

(* Itertools::unique: an element passes if no earlier one equals it *)
unique(q) ==
    LET F[k \in 0..Len(q)] ==
            IF k = 0 THEN << >>
            ELSE IF \E m \in 1..(k - 1) : q[m] = q[k] THEN F[k - 1]
                 ELSE Append(F[k - 1], q[k])
    IN F[Len(q)]

(* dedupe telling the elements of every sub-collection apart by their      *)
(* whole value                                                             *)
dedupe_by_value(a) ==
    [a EXCEPT
        !.namedEntities = unique(@),
        !.importantDates = unique(@),
        !.importantTimeframes = unique(@),
        !.keyTakeAways = unique(@)]

(* lines 249-269: dedupe *)
dedupe(a) ==
    [a EXCEPT
        !.namedEntities = unique_by(@, "name"),
        !.importantDates = unique_by(@, "descriptionOfWhyDateIsRelevant"),
        !.importantTimeframes = unique_by(@, "descriptionOfWhyTimeFrameIsRelevant"),
        !.keyTakeAways = unique(@)]

(* lines 244-283: match parsed *)
Finish(t, parsed, raw) ==
    IF parsed.ok
    THEN [t EXCEPT !.pc = "done", !.outcome = Some(dedupe(Stamp(parsed.val, raw)))]
    ELSE IF truncate_for_log(t.response_json.val.body, LOG_PREVIEW_MAX).panic
         THEN [t EXCEPT !.pc = "panicked"]
         ELSE [t EXCEPT !.pc = "done", !.outcome = None]

(* AfterAsk asking again when the first call has failed *)
AfterAskReaskOnFailure(t, raw) ==
    LET ret == t.ask.ret
    IN IF t.askNo = 1
       THEN IF ~ret.ok
            THEN [t EXCEPT !.askNo = 2, !.ask = ask_with_backoff,
                           !.parsed = Some([ok |-> FALSE, category |-> "Eof"])]
            ELSE LET parsed == from_str(ret.val)
                     t1 == [t EXCEPT !.response_json = Some(ret.val)]
                 IN IF ~parsed.ok /\ looks_truncated(parsed)
                    THEN [t1 EXCEPT !.askNo = 2, !.ask = ask_with_backoff,
                                    !.parsed = Some(parsed)]
                    ELSE Finish(t1, parsed, raw)
       ELSE IF ret.ok
            THEN Finish(t, from_str(ret.val), raw)
            ELSE Finish(t, t.parsed.val, raw)

(* AfterAsk keeping the first parse result whatever the re-ask returns *)
AfterAskKeepFirst(t, raw) ==
    LET ret == t.ask.ret
    IN IF t.askNo = 1
       THEN IF ~ret.ok
            THEN [t EXCEPT !.pc = "done", !.outcome = None]
            ELSE LET parsed == from_str(ret.val)
                     t1 == [t EXCEPT !.response_json = Some(ret.val)]
                 IN IF ~parsed.ok /\ looks_truncated(parsed)
                    THEN [t1 EXCEPT !.askNo = 2, !.ask = ask_with_backoff,
                                    !.parsed = Some(parsed)]
                    ELSE Finish(t1, parsed, raw)
       ELSE Finish(t, t.parsed.val, raw)

(* lines 224-289: what the block does once ask_with_backoff has returned *)
AfterAsk(t, raw) ==
    LET ret == t.ask.ret
    IN IF t.askNo = 1
       THEN IF ~ret.ok
            THEN [t EXCEPT !.pc = "done", !.outcome = None]
            ELSE LET parsed == from_str(ret.val)
                     t1 == [t EXCEPT !.response_json = Some(ret.val)]
                 IN IF ~parsed.ok /\ looks_truncated(parsed)
                    THEN [t1 EXCEPT !.askNo = 2, !.ask = ask_with_backoff,
                                    !.parsed = Some(parsed)]
                    ELSE Finish(t1, parsed, raw)
       ELSE IF ret.ok
            THEN Finish(t, from_str(ret.val), raw)
            ELSE Finish(t, t.parsed.val, raw)

----------------------------------------------------------------------------
(* main.rs: stream::iter(..).map(..).buffer_unordered(12).collect() *)

InFlight(ts) == {i \in DOMAIN ts : ts[i].pc = "running"}

Pending(ts) == {i \in DOMAIN ts : ts[i].pc = "pending"}

(* Fill that admits one task more than the limit *)
FillOneMore(ts) ==
    LET room == PARALLEL_BATCH_SIZE + 1 - Cardinality({i \in DOMAIN ts : ts[i].pc = "running"})
    IN [i \in DOMAIN ts |->
            IF ts[i].pc = "pending"
               /\ Cardinality({j \in DOMAIN ts : ts[j].pc = "pending" /\ j < i}) < room
            THEN Launch(ts[i])
            ELSE ts[i]]

(* buffer_unordered: pull from the stream, in order, while fewer than the  *)
(* limit are in progress                                                   *)
Fill(ts) ==
    LET room == PARALLEL_BATCH_SIZE - Cardinality(InFlight(ts))
    IN [i \in DOMAIN ts |->
            IF ts[i].pc = "pending"
               /\ Cardinality({j \in Pending(ts) : j < i}) < room
            THEN Launch(ts[i])
            ELSE ts[i]]

(* Yield that puts the newest item first *)
YieldFront(rs, item) == <<item>> \o rs

(* collect(): the Vec grows by each item as the stream yields it *)
Yield(rs, item) == Append(rs, item)

(* FanIn that stops at the first empty result *)
FanInUntilNone(fp, rs, total) ==
    LET empties == {k \in 1..Len(rs) : ~rs[k].some}
        upto == IF empties = {} THEN Len(rs)
                ELSE (CHOOSE k \in empties : \A m \in empties : k <= m) - 1
        arts == fp.articles \o Flatten(SubSeq(rs, 1, upto))
    IN [front_page |-> [fp EXCEPT !.articles = arts],
        counts |-> [successful |-> Len(arts), failed |-> total - Len(arts)]]

(* FanIn counting every result as a success *)
FanInCountResults(fp, rs, total) ==
    LET arts == fp.articles \o Flatten(rs)
    IN [front_page |-> [fp EXCEPT !.articles = arts],
        counts |-> [successful |-> Len(rs), failed |-> total - Len(rs)]]

(* FanIn that builds the front page anew, losing its time slot *)
FanInNewFrontPage(fp, rs, total) ==
    LET arts == fp.articles \o Flatten(rs)
    IN [front_page |-> [fp EXCEPT !.articles = arts, !.local_time = 0,
                                  !.time_of_day = ""],
        counts |-> [successful |-> Len(arts), failed |-> total - Len(arts)]]

(* lines 296-302: push the successes, count *)
FanIn(fp, rs, total) ==
    LET arts == fp.articles \o Flatten(rs)
    IN [front_page |-> [fp EXCEPT !.articles = arts],
        counts |-> [successful |-> Len(arts), failed |-> total - Len(arts)]]

(* one poll of the collect future after task i became t *)
Poll(i, t) ==
    /\ UNCHANGED <<articles, script, history>>
    /\ IF t.pc = "panicked"
       THEN /\ tasks' = [tasks EXCEPT ![i] = t]
            /\ mainpc' = "panicked"
            /\ UNCHANGED <<results, front_page, counts>>
       ELSE IF t.pc = "done"
       THEN LET ts == Fill([tasks EXCEPT ![i] = t])
                rs == Yield(results, t.outcome)
                end == \A j \in DOMAIN ts : ts[j].pc = "done"
                fin == FanIn(front_page, rs, Len(articles))
            IN /\ tasks' = ts
               /\ results' = rs
               /\ front_page' = IF end THEN fin.front_page ELSE front_page
               /\ counts' = IF end THEN fin.counts ELSE counts
               /\ mainpc' = IF end THEN "processed" ELSE mainpc
       ELSE /\ tasks' = [tasks EXCEPT ![i] = t]
            /\ UNCHANGED <<results, front_page, counts, mainpc>>

(* StartFanOut that does not await the collected stream *)
StartFanOutNoAwait ==
    /\ mainpc = "processing"
    /\ LET fin == FanIn(front_page, results, Len(articles))
       IN /\ tasks' = Fill(tasks)
          /\ front_page' = fin.front_page
          /\ counts' = fin.counts
          /\ mainpc' = "processed"
    /\ UNCHANGED <<articles, script, results, history>>
    /\ UNCHANGED <<api, files, log, clock>>

(* the first poll of the stream *)
StartFanOut ==
    /\ mainpc = "processing"
    /\ LET ts == Fill(tasks)
           end == DOMAIN ts = {}
           fin == FanIn(front_page, results, Len(articles))
       IN /\ tasks' = ts
          /\ front_page' = IF end THEN fin.front_page ELSE front_page
          /\ counts' = IF end THEN fin.counts ELSE counts
          /\ mainpc' = IF end THEN "processed" ELSE "fanout"
    /\ UNCHANGED <<articles, script, results, history>>
    /\ UNCHANGED <<api, files, log, clock>>

(* the capability answers the pending call of task i *)
InnerOk(i) ==
    /\ mainpc = "fanout"
    /\ tasks[i].pc = "running"
    /\ tasks[i].ask.pc = "calling"
    /\ tasks[i].ask.calls > script[i].fails[tasks[i].askNo]
    /\ LET t == tasks[i]
           r == RetryOnOk(t.ask, script[i].resp[t.askNo])
       IN Poll(i, AfterAsk([t EXCEPT !.ask = r], articles[i]))
    /\ UNCHANGED <<api, files, log, clock>>

(* the pending call of task i fails *)
InnerErr(i) ==
    /\ mainpc = "fanout"
    /\ tasks[i].pc = "running"
    /\ tasks[i].ask.pc = "calling"
    /\ tasks[i].ask.calls <= script[i].fails[tasks[i].askNo]
    /\ \E jitter_ms \in Jitters, overflow_checks \in BOOLEAN :
         LET t == tasks[i]
             r == RetryOnErr(t.ask, [call |-> t.ask.calls], jitter_ms, overflow_checks)
         IN IF r.pc = "sleeping"
            THEN Poll(i, [t EXCEPT !.ask = r])
            ELSE IF r.pc = "panicked"
            THEN Poll(i, [t EXCEPT !.ask = r, !.pc = "panicked"])
            ELSE Poll(i, AfterAsk([t EXCEPT !.ask = r], articles[i]))
    /\ UNCHANGED <<api, files, log, clock>>

(* the backoff sleep of task i is over *)
SleepDone(i) ==
    /\ mainpc = "fanout"
    /\ tasks[i].pc = "running"
    /\ tasks[i].ask.pc = "sleeping"
    /\ Poll(i, [tasks[i] EXCEPT !.ask = RetryWake(@)])
    /\ UNCHANGED <<api, files, log, clock>>

(* the program is invoked again on the same articles and responses *)
Rerun ==
    /\ mainpc \in {"processed", "panicked"}
    /\ Len(history) + 1 < MaxRuns
    /\ history' = Append(history, [front_page |-> front_page, end |-> mainpc])
    /\ tasks' = [i \in DOMAIN tasks |-> PendingTask]
    /\ results' = << >>
    /\ front_page' = [front_page EXCEPT !.articles = << >>]
    /\ counts' = [successful |-> 0, failed |-> 0]
    /\ mainpc' = "processing"
    /\ UNCHANGED <<articles, script, api, files, log, clock>>

(* one invocation only *)
NextOnce ==
    \/ StartFanOut
    \/ \E i \in DOMAIN tasks : InnerOk(i)
    \/ \E i \in DOMAIN tasks : InnerErr(i)
    \/ \E i \in DOMAIN tasks : SleepDone(i)

NextFan ==
    \/ StartFanOut
    \/ \E i \in DOMAIN tasks : InnerOk(i)
    \/ \E i \in DOMAIN tasks : InnerErr(i)
    \/ \E i \in DOMAIN tasks : SleepDone(i)
    \/ Rerun

----------------------------------------------------------------------------
(* The stand-alone RetryAsk: any max_retries, any behaviour of the wrapped *)
(* capability                                                              *)

ErrKinds == {"transient", "permanent"}

ApiAsk ==
    /\ api.pc = "idle"
    /\ api' = RetryAskCall(api)
    /\ UNCHANGED <<articles, script, tasks, results, front_page, counts, mainpc, history, files, log, clock>>

ApiInnerOk ==
    /\ api.pc = "calling"
    /\ \E j \in JsonShapes : api' = RetryOnOk(api, Response(j, ShortAscii, api.calls))
    /\ UNCHANGED <<articles, script, tasks, results, front_page, counts, mainpc, history, files, log, clock>>

ApiInnerErr ==
    /\ api.pc = "calling"
    /\ \E k \in ErrKinds, jitter_ms \in Jitters :
         api' = RetryOnErr(api, [call |-> api.calls, kind |-> k], jitter_ms,
                           script.overflow_checks)
    /\ UNCHANGED <<articles, script, tasks, results, front_page, counts, mainpc, history, files, log, clock>>

ApiSleepDone ==
    /\ api.pc = "sleeping"
    /\ api' = RetryWake(api)
    /\ UNCHANGED <<articles, script, tasks, results, front_page, counts, mainpc, history, files, log, clock>>

NextRetry == ApiAsk \/ ApiInnerOk \/ ApiInnerErr \/ ApiSleepDone

----------------------------------------------------------------------------
(* Text of the outline documents.  A line is a sequence of tokens, its     *)
(* leading whitespace (if any) being the first; a document is a sequence   *)
(* of lines and "\n" tokens.                                               *)

NL == <<"\n">>

EmptyLine == << >>

IsWhitespace(tok) == tok \in {"    ", "        ", "\t", "\t\t"}

(* "{ws}- {pre}[label](href)" *)
Item(ws, pre, label, href) ==
    (IF ws = "" THEN << >> ELSE <<ws>>) \o <<"- ">> \o pre \o <<"[">> \o label
        \o <<"]", "(">> \o href \o <<")">>

(* str::lines *)
RECURSIVE Lines(_)
Lines(c) ==
    IF c = << >> THEN << >>
    ELSE IF Head(c) = NL THEN <<EmptyLine>> \o Lines(Tail(c))
    ELSE IF Len(c) >= 2 /\ c[2] = NL THEN <<Head(c)>> \o Lines(Tail(Tail(c)))
    ELSE <<Head(c)>> \o Lines(Tail(c))

(* lines.join("\n") *)
RECURSIVE Join(_)
Join(ls) ==
    LET tok(l) == IF l = EmptyLine THEN << >> ELSE <<l>>
    IN IF ls = << >> THEN << >>
       ELSE IF Len(ls) = 1 THEN tok(ls[1])
       ELSE tok(Head(ls)) \o <<NL>> \o Join(Tail(ls))

(* str::trim: the lines written here carry no trailing whitespace *)
Trim(l) == IF l # << >> /\ IsWhitespace(Head(l)) THEN Tail(l) ELSE l

(* str::starts_with *)
StartsWith(l, p) == Len(l) >= Len(p) /\ SubSeq(l, 1, Len(p)) = p

(* str::contains *)
Contains(l, p) == \E k \in 1..Len(l) : StartsWith(SubSeq(l, k, Len(l)), p)

(* Vec::insert at index j, counted from 1 *)
Insert(ls, j, l) == SubSeq(ls, 1, j - 1) \o <<l>> \o SubSeq(ls, j, Len(ls))

(* utils.rs upcase, on the three values of time_of_day *)
upcase(s) ==
    CASE s = "morning" -> "Morning"
      [] s = "afternoon" -> "Afternoon"
      [] s = "evening" -> "Evening"
      [] OTHER -> s

DateName == <<"2025-05-06", "2025-05-07", "2025-05-08", "2025-05-09">>

Slots == {"morning", "afternoon", "evening"}

(* main.rs line 373 *)
MarkdownFilename(fp) == <<fp.local_date, "_", fp.time_of_day, ".md">>

----------------------------------------------------------------------------
(* The output directory *)

(* nothing written yet, both directories usable: the outline documents,    *)
(* the edition files of the markdown directory, the files of the JSON      *)
(* directory                                                               *)
NoFiles ==
    [summary |-> None, daily |-> None, toc |-> [d \in {} |-> << >>],
     md |-> {}, json |-> {}, json_dir_writable |-> TRUE, md_dir_writable |-> TRUE]

(* one tracing event of a sink: the info! of its success or the error! of  *)
(* its failure                                                             *)
Event(sink, ok) == [sink |-> sink, ok |-> ok]

TocExists(fs, d) == d \in DOMAIN fs.toc

WriteToc(fs, d, c) ==
    [fs EXCEPT !.toc = [x \in DOMAIN fs.toc \cup {d} |-> IF x = d THEN c ELSE fs.toc[x]]]

----------------------------------------------------------------------------
(* utils.rs slugify_title, on titles as sequences of characters *)

Lower(c) ==
    CASE c = "A" -> "a" [] c = "B" -> "b" [] c = "C" -> "c" [] c = "T" -> "t"
      [] OTHER -> c

IsAlnum(c) == c \in {"a", "b", "c", "t", "x", "1", "2"}

RECURSIVE slugify_title(_)
slugify_title(title) ==
    IF title = << >> THEN << >>
    ELSE LET c == Lower(Head(title))
             rest == slugify_title(Tail(title))
         IN IF ~IsAlnum(c) /\ c # " " /\ c # "-" THEN rest
            ELSE IF c = " " THEN <<"-">> \o rest
            ELSE <<c>> \o rest

(* models.rs AwfulNewsArticle::source_tag *)
source_tag(a) ==
    IF ~a.source.some THEN None
    ELSE LET parts == a.source.val.host
         IN IF Len(parts) >= 2 THEN Some(parts[Len(parts) - 1]) ELSE None

----------------------------------------------------------------------------
(* indexes.rs update_date_toc_file *)

(* the categories an article may carry, in ascending String order *)
CategoryNames == << <<"A", "b">>, <<"B", " ", "c">>, <<"C", "!">> >>

(* OfCategory keeping the first article of a category only *)
OfCategoryFirst(arts, c) ==
    LET mine == SelectSeq(arts, LAMBDA a : a.category = c)
    IN IF mine = << >> THEN << >> ELSE <<Head(mine)>>

(* the articles of one category, in the order of the edition *)
OfCategory(arts, c) == SelectSeq(arts, LAMBDA a : a.category = c)

(* TocArticleLine with the slug of the title alone as the anchor *)
TocArticleLineSlugOnly(a, file) ==
    LET tag == source_tag(a)
    IN Item("\t\t",
            IF tag.some THEN <<" <small>", tag.val, "</small>", " - ">> ELSE <<" - ">>,
            a.title, file \o <<"#">> \o slugify_title(a.title))

(* lines 85-101; the backquotes around the tag belong to the small tokens *)
TocArticleLine(a, file) ==
    LET tag == source_tag(a)
        slug == IF tag.some THEN slugify_title(a.title) \o <<"---", tag.val>>
                ELSE slugify_title(a.title)
    IN Item("\t\t",
            IF tag.some THEN <<" <small>", tag.val, "</small>", " - ">> ELSE <<" - ">>,
            a.title, file \o <<"#">> \o slug)

RECURSIVE TocArticleLines(_, _)
TocArticleLines(arts, file) ==
    IF arts = << >> THEN << >>
    ELSE <<TocArticleLine(Head(arts), file), NL>> \o TocArticleLines(Tail(arts), file)

(* the BTreeMap walk: categories c..Len(CategoryNames) in ascending order *)
RECURSIVE TocCategories(_, _, _)
TocCategories(arts, file, c) ==
    IF c > Len(CategoryNames) THEN << >>
    ELSE LET mine == OfCategory(arts, c)
             name == CategoryNames[c]
         IN (IF mine = << >> THEN << >>
             ELSE <<Item("\t", << >>, <<"**">> \o name \o <<"**">>,
                         file \o <<"#">> \o slugify_title(name)), NL>>
                  \o TocArticleLines(mine, file))
            \o TocCategories(arts, file, c + 1)

TocHeader(d) == <<"# Editions published on ", d>>

TocEditionLine(fp, file) == Item("", << >>, <<upcase(fp.time_of_day)>>, <<"./">> \o file)

(* update_date_toc_file writing the header on every call *)
update_date_toc_file_reseed(fs, fp, file) ==
    LET d == fp.local_date
        toc_md == <<TocHeader(d), NL, NL>> \o <<TocEditionLine(fp, file), NL>>
                       \o TocCategories(fp.articles, file, 1)
        old == IF TocExists(fs, d) THEN fs.toc[d] ELSE << >>
    IN WriteToc(fs, d, old \o toc_md)

update_date_toc_file(fs, fp, file) ==
    LET d == fp.local_date
        head == IF ~TocExists(fs, d) THEN <<TocHeader(d), NL, NL>> ELSE << >>
        toc_md == head \o <<TocEditionLine(fp, file), NL>>
                       \o TocCategories(fp.articles, file, 1)
        old == IF TocExists(fs, d) THEN fs.toc[d] ELSE << >>
    IN WriteToc(fs, d, old \o toc_md)

----------------------------------------------------------------------------
(* indexes.rs update_summary_md and update_daily_news_index *)

Min(S) == CHOOSE x \in S : \A y \in S : x <= y

(* InsertUnderHeading putting a new entry right under the date heading *)
InsertUnderHeadingFirst(ls, date_heading, edition, ws) ==
    LET hits == {i \in 1..Len(ls) : Trim(ls[i]) = Trim(date_heading)}
    IN IF hits = {} THEN [inserted |-> FALSE, lines |-> ls]
       ELSE LET i == Min(hits)
                block == {j \in (i + 1)..Len(ls) :
                            \A k \in (i + 1)..j : StartsWith(ls[k], <<ws, "- ">>)}
                found_edition == \E j \in block : Trim(ls[j]) = Trim(edition)
            IN [inserted |-> TRUE,
                lines |-> IF found_edition THEN ls ELSE Insert(ls, i + 1, edition)]

(* InsertUnderHeading putting a new entry at the end of the document *)
InsertUnderHeadingAtEnd(ls, date_heading, edition, ws) ==
    LET hits == {i \in 1..Len(ls) : Trim(ls[i]) = Trim(date_heading)}
    IN IF hits = {} THEN [inserted |-> FALSE, lines |-> ls]
       ELSE LET i == Min(hits)
                block == {j \in (i + 1)..Len(ls) :
                            \A k \in (i + 1)..j : StartsWith(ls[k], <<ws, "- ">>)}
                found_edition == \E j \in block : Trim(ls[j]) = Trim(edition)
            IN [inserted |-> TRUE,
                lines |-> IF found_edition THEN ls ELSE Append(ls, edition)]

(* the while loops of lines 163-181 and 246-264: find the date heading,    *)
(* scan the block of items indented by ws beneath it, insert the edition   *)
(* entry where the scan stopped unless it stopped on that entry            *)
InsertUnderHeading(ls, date_heading, edition, ws) ==
    LET hits == {i \in 1..Len(ls) : Trim(ls[i]) = Trim(date_heading)}
    IN IF hits = {} THEN [inserted |-> FALSE, lines |-> ls]
       ELSE LET i == Min(hits)
                stops == {j \in (i + 1)..(Len(ls) + 1) :
                            \/ j > Len(ls)
                            \/ ~StartsWith(ls[j], <<ws, "- ">>)
                            \/ Trim(ls[j]) = Trim(edition)}
                j == Min(stops)
                found_edition == /\ j <= Len(ls)
                                 /\ StartsWith(ls[j], <<ws, "- ">>)
                                 /\ Trim(ls[j]) = Trim(edition)
            IN [inserted |-> TRUE,
                lines |-> IF found_edition THEN ls ELSE Insert(ls, j, edition)]

(* line 146 *)
SummarySeed ==
    <<<<"# Summary">>, NL, NL,
      <<"[", "Home", "]", "(", "./home.md", ")">>, NL,
      Item("", << >>, <<"PGP">>, <<"./pgp.md">>), NL,
      Item("", << >>, <<"Contact">>, <<"./contact.md">>), NL,
      Item("", << >>, <<"Daily News">>, <<"./daily_news.md">>), NL>>

SummaryDateHeading(d) == Item("    ", << >>, <<d>>, <<"./", d, ".md">>)

SummaryEditionHeading(fp, file) ==
    Item("        ", << >>, <<upcase(fp.time_of_day)>>, <<"./">> \o file)

update_summary_md(fs, fp, file) ==
    LET summary == IF fs.summary.some THEN fs.summary.val ELSE SummarySeed
        date_heading == SummaryDateHeading(fp.local_date)
        edition_heading == SummaryEditionHeading(fp, file)
        m == InsertUnderHeading(Lines(summary), date_heading, edition_heading, "        ")
        anchors == {i \in 1..Len(m.lines) :
                        Contains(m.lines[i], <<"- ", "[", "Daily News", "]">>)}
        ls == IF m.inserted \/ anchors = {} THEN m.lines
              ELSE Insert(Insert(m.lines, Min(anchors) + 1, date_heading),
                          Min(anchors) + 2, edition_heading)
    IN [fs EXCEPT !.summary = Some(Join(ls))]

IndexHeader == <<"# Awful News Index">>

(* line 229 *)
DailySeed == <<IndexHeader, NL, NL>>

DailyDateHeading(d) == Item("", << >>, <<"**", d, "**">>, <<"./", d, ".md">>)

DailyEditionEntry(fp, file) ==
    Item("    ", << >>, <<upcase(fp.time_of_day)>>, <<"./">> \o file)

(* update_daily_news_index putting a new date at the end of the document *)
update_daily_news_index_append(fs, fp, file) ==
    LET content == IF fs.daily.some THEN fs.daily.val ELSE DailySeed
        date_heading == DailyDateHeading(fp.local_date)
        edition_entry == DailyEditionEntry(fp, file)
        m == InsertUnderHeading(Lines(content), date_heading, edition_entry, "    ")
        ls == IF m.inserted THEN m.lines
              ELSE m.lines \o <<date_heading, edition_entry>>
    IN [fs EXCEPT !.daily = Some(Join(ls))]

update_daily_news_index(fs, fp, file) ==
    LET content == IF fs.daily.some THEN fs.daily.val ELSE DailySeed
        date_heading == DailyDateHeading(fp.local_date)
        edition_entry == DailyEditionEntry(fp, file)
        m == InsertUnderHeading(Lines(content), date_heading, edition_entry, "    ")
        heads == {i \in 1..Len(m.lines) : StartsWith(m.lines[i], IndexHeader)}
        ls == IF m.inserted THEN m.lines
              ELSE IF heads # {}
                   THEN LET at == Min(heads) + 1
                        IN Insert(Insert(Insert(m.lines, at, EmptyLine),
                                         at + 1, date_heading),
                                  at + 2, edition_entry)
                   ELSE m.lines \o <<date_heading, edition_entry>>
    IN [fs EXCEPT !.daily = Some(Join(ls))]

----------------------------------------------------------------------------
(* main.rs lines 372-403: the three index updates, one after another *)

UpdateDateToc ==
    /\ mainpc = "toc"
    /\ files.md_dir_writable
    /\ files' = update_date_toc_file(files, front_page, MarkdownFilename(front_page))
    /\ log' = Append(log, Event("toc", TRUE))
    /\ mainpc' = "summary"
    /\ UNCHANGED <<articles, script, tasks, results, front_page, counts, history, api, clock>>

UpdateSummary ==
    /\ mainpc = "summary"
    /\ files.md_dir_writable
    /\ files' = update_summary_md(files, front_page, MarkdownFilename(front_page))
    /\ log' = Append(log, Event("summary", TRUE))
    /\ mainpc' = "daily"
    /\ UNCHANGED <<articles, script, tasks, results, front_page, counts, history, api, clock>>

UpdateDailyNews ==
    /\ mainpc = "daily"
    /\ files.md_dir_writable
    /\ files' = update_daily_news_index(files, front_page, MarkdownFilename(front_page))
    /\ log' = Append(log, Event("daily", TRUE))
    /\ mainpc' = "exit"
    /\ UNCHANGED <<articles, script, tasks, results, front_page, counts, history, api, clock>>

(* the articles an edition may hold when it reaches the sinks *)
Enriched(k, cat, title) ==
    [source |-> Some(RawArticle(k).source), content |-> Some(RawArticle(k).content),
     payload |-> 1, category |-> cat, title |-> title]

EditionArticles ==
    {<< >>,
     <<Enriched(1, 2, <<"T", "x", " ", "1", "!">>), Enriched(2, 1, <<"A", "-", "b">>),
       Enriched(3, 2, <<"T", "x", " ", "1", "!">>)>>,
     <<Enriched(1, 2, <<"T", "x", " ", "1", "!">>),
       Enriched(2, 2, <<"T", "x", " ", "1", "!">>)>>}

Editions ==
    {[local_date |-> DateName[d], time_of_day |-> s, articles |-> a] :
        d \in 1..MaxDates, s \in Slots, a \in EditionArticles}

(* the program is invoked again, at any date and time, against the same    *)
(* output directory, and reaches the sinks with any edition                *)
NewEdition ==
    /\ mainpc = "exit"
    /\ Len(history) + 1 < MaxEditions
    /\ history' = Append(history, [front_page |-> front_page, end |-> mainpc])
    /\ \E e \in Editions : front_page' = e
    /\ counts' = [successful |-> Len(front_page'.articles), failed |-> 0]
    /\ mainpc' = "toc"
    /\ log' = << >>
    /\ UNCHANGED <<articles, script, tasks, results, api, files, clock>>

NextIndex == UpdateDateToc \/ UpdateSummary \/ UpdateDailyNews \/ NewEdition

----------------------------------------------------------------------------
(* utils.rs time_of_day.  A NaiveTime is its number of seconds since       *)
(* midnight.                                                               *)

from_hms_opt(h, m, s) == (h * 60 + m) * 60 + s

morning_low == from_hms_opt(0, 0, 0)

morning_high == from_hms_opt(8, 0, 0)

afternoon_low == from_hms_opt(8, 0, 0)

afternoon_high == from_hms_opt(16, 0, 0)

(* time_of_day with the upper limits included *)
time_of_day_inclusive(tod) ==
    IF tod >= morning_low /\ tod <= morning_high THEN "morning"
    ELSE IF tod >= afternoon_low /\ tod <= afternoon_high THEN "afternoon"
    ELSE "evening"

(* lines 33-40, tod being Local::now().time() *)
time_of_day(tod) ==
    IF tod >= morning_low /\ tod < morning_high THEN "morning"
    ELSE IF tod >= afternoon_low /\ tod < afternoon_high THEN "afternoon"
    ELSE "evening"

(* the clock one second later *)
Advance(c) ==
    IF c.secs + 1 = from_hms_opt(24, 0, 0) THEN [day |-> c.day + 1, secs |-> 0]
    ELSE [c EXCEPT !.secs = @ + 1]

(* no front page yet *)
NoFrontPage == [local_date |-> "", local_time |-> 0, time_of_day |-> "", articles |-> << >>]

(* main.rs lines 189-198: the front page is built from three readings of   *)
(* the clock, Local::now() at line 190, at line 191 and in time_of_day();  *)
(* the second may change after the first reading or after the second one   *)
(* (ticked = 3: after the third)                                           *)
BuildFrontPage ==
    /\ mainpc = "frontpage"
    /\ \E ticked \in 1..3 :
         LET now(k) == IF k > ticked THEN Advance(clock) ELSE clock
         IN /\ front_page' = [local_date |-> DateName[now(1).day],
                              local_time |-> now(2).secs,
                              time_of_day |-> time_of_day(now(3).secs),
                              articles |-> << >>]
            /\ clock' = now(3)
    /\ mainpc' = "processing"
    /\ UNCHANGED <<articles, script, tasks, results, counts, history, api, files, log>>

NextClock == BuildFrontPage

----------------------------------------------------------------------------
(* main.rs: the whole run, from the early check of the JSON directory to   *)
(* the final Ok(()).  URL discovery, fetching and the loading of the       *)
(* template and the configuration succeed.                                 *)

(* ensure_writable_dir satisfied by any writable output directory *)
ensure_writable_dir_any(fs) == fs.json_dir_writable \/ fs.md_dir_writable

(* utils.rs ensure_writable_dir: whether it returns Ok *)
ensure_writable_dir(fs) == fs.json_dir_writable

(* json.rs lines 54-74: the directory and the file of the JSON edition;    *)
(* late: the clock reads 23:59:59 or later when the edition is written     *)
json_path(fp, late) ==
    IF fp.time_of_day = "evening" /\ late
    THEN [dir |-> "yesterday", file |-> <<"yesterday", ".json">>]
    ELSE [dir |-> fp.local_date, file |-> <<fp.time_of_day, ".json">>]

(* lines 90-105 *)
EnsureWritable ==
    /\ mainpc = "start"
    /\ mainpc' = IF ensure_writable_dir(files) THEN "indexing" ELSE "failed"
    /\ UNCHANGED <<articles, script, tasks, results, front_page, counts, history, api,
                   files, log, clock>>

(* lines 107-174: the front pages of the sources are indexed and the       *)
(* articles fetched: one article per entry of script                       *)
IndexAndFetch ==
    /\ mainpc = "indexing"
    /\ articles' = [i \in 1..Len(script) |-> RawArticle(i)]
    /\ tasks' = [i \in 1..Len(script) |-> PendingTask]
    /\ mainpc' = "frontpage"
    /\ UNCHANGED <<script, results, front_page, counts, history, api, files, log, clock>>

(* WriteJson returning the error of a failed write, as with the ? operator *)
WriteJsonOrReturn ==
    /\ mainpc = "processed"
    /\ \E ok \in BOOLEAN, late \in BOOLEAN :
         /\ ok => files.json_dir_writable
         /\ files' = IF ok THEN [files EXCEPT !.json = @ \cup {json_path(front_page, late)}]
                     ELSE files
         /\ log' = Append(log, Event("json", ok))
         /\ mainpc' = IF ok THEN "markdown" ELSE "failed"
    /\ UNCHANGED <<articles, script, tasks, results, front_page, counts, history, api, clock>>

(* lines 325-339: json::write_frontpage; its error is logged *)
WriteJson ==
    /\ mainpc = "processed"
    /\ \E ok \in BOOLEAN, late \in BOOLEAN :
         /\ ok => files.json_dir_writable
         /\ files' = IF ok THEN [files EXCEPT !.json = @ \cup {json_path(front_page, late)}]
                     ELSE files
         /\ log' = Append(log, Event("json", ok))
    /\ mainpc' = "markdown"
    /\ UNCHANGED <<articles, script, tasks, results, front_page, counts, history, api, clock>>

(* lines 342-370: the edition's Markdown file; the error is logged *)
WriteMarkdown ==
    /\ mainpc = "markdown"
    /\ \E ok \in BOOLEAN :
         /\ ok => files.md_dir_writable
         /\ files' = IF ok THEN [files EXCEPT !.md = @ \cup {MarkdownFilename(front_page)}]
                     ELSE files
         /\ log' = Append(log, Event("markdown", ok))
    /\ mainpc' = "toc"
    /\ UNCHANGED <<articles, script, tasks, results, front_page, counts, history, api, clock>>

(* lines 375-383, the Err arm: the error is logged *)
UpdateDateTocErr ==
    /\ mainpc = "toc"
    /\ log' = Append(log, Event("toc", FALSE))
    /\ mainpc' = "summary"
    /\ UNCHANGED <<articles, script, tasks, results, front_page, counts, history, api,
                   files, clock>>

(* lines 385-393, the Err arm *)
UpdateSummaryErr ==
    /\ mainpc = "summary"
    /\ log' = Append(log, Event("summary", FALSE))
    /\ mainpc' = "daily"
    /\ UNCHANGED <<articles, script, tasks, results, front_page, counts, history, api,
                   files, clock>>

(* lines 395-403, the Err arm; then lines 405-425, Ok(()) *)
UpdateDailyNewsErr ==
    /\ mainpc = "daily"
    /\ log' = Append(log, Event("daily", FALSE))
    /\ mainpc' = "exit"
    /\ UNCHANGED <<articles, script, tasks, results, front_page, counts, history, api,
                   files, clock>>

NextMain ==
    \/ EnsureWritable
    \/ IndexAndFetch
    \/ BuildFrontPage
    \/ StartFanOut
    \/ \E i \in DOMAIN tasks : InnerOk(i)
    \/ \E i \in DOMAIN tasks : InnerErr(i)
    \/ \E i \in DOMAIN tasks : SleepDone(i)
    \/ WriteJson
    \/ WriteMarkdown
    \/ UpdateDateToc
    \/ UpdateDateTocErr
    \/ UpdateSummary
    \/ UpdateSummaryErr
    \/ UpdateDailyNews
    \/ UpdateDailyNewsErr

----------------------------------------------------------------------------
(* Inputs *)

Script(f1, r1, f2, r2) == [fails |-> <<f1, f2>>, resp |-> <<r1, r2>>]

Exhaust == DEFAULT_MAX_RETRIES + 1

(* every behaviour of the capability towards one article *)
TaskScripts ==
    {Script(f1, Response(j1, b, 1), f2, Response(j2, ShortAscii, 2)) :
        f1 \in 0..Exhaust, j1 \in JsonShapes, b \in Bodies,
        f2 \in 0..Exhaust, j2 \in JsonShapes}

Quick == Script(0, Response("valid", ShortAscii, 1), 0, Response("valid", ShortAscii, 2))

RetryOnce == Script(1, Response("valid", ShortAscii, 1), 0, Response("valid", ShortAscii, 2))

FanScripts ==
    {Quick,
     RetryOnce,
     Script(0, Response("syntax", LongAscii, 1), 0, Response("valid", ShortAscii, 2)),
     Script(0, Response("eof", ShortAscii, 1), 0, Response("valid", ShortAscii, 2)),
     Script(0, Response("data", LongStraddle, 1), 0, Response("valid", ShortAscii, 2))}

(* the same, and the failures by exhausted retries and by a response       *)
(* truncated twice                                                         *)
SiblingScripts ==
    FanScripts \cup
    {Script(Exhaust, Response("valid", ShortAscii, 1), 0, Response("valid", ShortAscii, 2)),
     Script(0, Response("eof", ShortAscii, 1), 0, Response("eof", ShortAscii, 2))}

(* a clock for the runs that do not read it *)
StartOfDay == [day |-> 1, secs |-> from_hms_opt(0, 0, 0)]

InitRun(arts, scr) ==
    /\ articles = arts
    /\ script = scr
    /\ tasks = [i \in 1..Len(arts) |-> PendingTask]
    /\ results = << >>
    /\ front_page = [local_date |-> DateName[1], time_of_day |-> "morning", articles |-> << >>]
    /\ counts = [successful |-> 0, failed |-> 0]
    /\ mainpc = "processing"
    /\ history = << >>
    /\ files = NoFiles
    /\ log = << >>
    /\ clock = StartOfDay

InitFanRun(arts, scr) == InitRun(arts, scr) /\ api = RetryAskNew(0, 0)

(* one article, every behaviour of the capability *)
InitTask ==
    \E s \in TaskScripts : InitFanRun(<<RawArticle(1)>>, <<s>>)

(* up to MaxArticles articles, possibly equal, a few behaviours each *)
InitFan ==
    \E n \in 0..MaxArticles :
        \E ks \in [1..n -> 1..2], scr \in [1..n -> FanScripts] :
            InitFanRun([i \in 1..n |-> RawArticle(ks[i])], scr)

Seqs(S) == UNION {[1..n -> S] : n \in 0..MaxLen}

(* documents in which one sub-collection is any sequence of up to MaxLen   *)
(* elements                                                                *)
Docs ==
    {[SampleDoc(1) EXCEPT !.keyTakeAways = q] : q \in Seqs(TakeAwayPool)}
    \cup {[SampleDoc(1) EXCEPT !.namedEntities = q] : q \in Seqs(EntityPool)}
    \cup {[SampleDoc(1) EXCEPT !.importantDates = q] : q \in Seqs(DatePool)}
    \cup {[SampleDoc(1) EXCEPT !.importantTimeframes = q] : q \in Seqs(TimeframePool)}
    \cup {[SampleDoc(1) EXCEPT !.tags = q] : q \in Seqs(TakeAwayPool)}

(* one article whose first response is well-formed and carries any of      *)
(* Docs, at once or after one failed call                                  *)
InitDedupe ==
    \E d \in Docs, f \in 0..1 :
        InitFanRun(<<RawArticle(1)>>,
                   <<Script(f, [Response("valid", ShortAscii, 1) EXCEPT !.doc = d],
                            0, Response("valid", ShortAscii, 2))>>)

(* MaxArticles articles, possibly equal, every kind of failure *)
InitSiblings ==
    \E ks \in [1..MaxArticles -> 1..2], scr \in [1..MaxArticles -> SiblingScripts] :
        InitFanRun([i \in 1..MaxArticles |-> RawArticle(ks[i])], scr)

(* three articles: every call for the first fails, the second is answered  *)
(* at once, the third is answered by a truncated and then by a complete    *)
(* response                                                                *)
ExampleScripts ==
    <<Script(Exhaust, Response("valid", ShortAscii, 1), 0, Response("valid", ShortAscii, 2)),
      Quick,
      Script(0, Response("eof", ShortAscii, 1), 0, Response("valid", ShortAscii, 2))>>

InitExample ==
    InitFanRun(<<RawArticle(1), RawArticle(2), RawArticle(3)>>, ExampleScripts)

(* any two articles, or the three of the example *)
InitCounts == InitSiblings \/ InitExample

(* the local times the program may start at: every hour of the day, at its *)
(* first, a middle and its last minute, at the first and the last second   *)
ClockTimes ==
    {from_hms_opt(h, m, s) : h \in 0..23, m \in {0, 30, 59}, s \in {0, 59}}

(* the program starts at any of ClockTimes, on any date *)
InitClock ==
    /\ articles = << >>
    /\ script = << >>
    /\ \E t \in ClockTimes, d \in 1..MaxDates : clock = [day |-> d, secs |-> t]
    /\ tasks = << >>
    /\ results = << >>
    /\ front_page = NoFrontPage
    /\ counts = [successful |-> 0, failed |-> 0]
    /\ mainpc = "frontpage"
    /\ history = << >>
    /\ api = RetryAskNew(0, 0)
    /\ files = NoFiles
    /\ log = << >>

(* what the capability may answer to an article of a whole run: a          *)
(* well-formed response at once or after a failed call, a malformed one, a *)
(* malformed one whose preview ends inside a character                     *)
MainScripts ==
    {Quick,
     RetryOnce,
     Script(0, Response("syntax", LongAscii, 1), 0, Response("valid", ShortAscii, 2)),
     Script(0, Response("data", LongStraddle, 1), 0, Response("valid", ShortAscii, 2))}

(* the times a whole run may start at: the last second of a time slot, or *)
(* noon                                                                    *)
MainTimes ==
    {from_hms_opt(7, 59, 59), from_hms_opt(12, 0, 0), from_hms_opt(15, 59, 59),
     from_hms_opt(23, 59, 59)}

(* the program starts: up to MaxArticles articles will be fetched, each    *)
(* output directory is usable or not                                       *)
InitMain ==
    /\ articles = << >>
    /\ tasks = << >>
    /\ \E n \in 0..MaxArticles : \E scr \in [1..n -> MainScripts] : script = scr
    /\ results = << >>
    /\ front_page = NoFrontPage
    /\ \E t \in MainTimes : clock = [day |-> 1, secs |-> t]
    /\ counts = [successful |-> 0, failed |-> 0]
    /\ mainpc = "start"
    /\ history = << >>
    /\ api = RetryAskNew(0, 0)
    /\ \E j \in BOOLEAN, m \in BOOLEAN :
         files = [NoFiles EXCEPT !.json_dir_writable = j, !.md_dir_writable = m]
    /\ log = << >>

(* more articles than the ceiling; the first or the last of them has its   *)
(* first call fail, the others are answered at once                        *)
InitCeil ==
    \E k \in {1, CeilArticles} :
        InitFanRun([i \in 1..CeilArticles |-> RawArticle(1)],
                [i \in 1..CeilArticles |-> IF i = k THEN RetryOnce ELSE Quick])

(* enough retries for the shift amount to pass the width *)
OverflowRetries == U32_BITS + 2

BaseDelays == {0, DEFAULT_BASE_DELAY_MS, MAX_DELAY_MS + DEFAULT_BASE_DELAY_MS}

(* a RetryAsk built with any max_retries up to MaxRetriesCfg, or with      *)
(* OverflowRetries, and a base delay; the program built with or without    *)
(* overflow checks                                                         *)
InitRetry ==
    /\ \E oc \in BOOLEAN : InitRun(<< >>, [overflow_checks |-> oc])
    /\ \E m \in (0..MaxRetriesCfg) \cup {OverflowRetries}, b \in BaseDelays :
         api = RetryAskNew(m, b)

(* the first invocation has reached the sinks; the directory is empty *)
InitIndex ==
    /\ articles = << >>
    /\ script = << >>
    /\ tasks = << >>
    /\ results = << >>
    /\ \E e \in Editions : front_page = e
    /\ counts = [successful |-> Len(front_page.articles), failed |-> 0]
    /\ mainpc = "toc"
    /\ history = << >>
    /\ api = RetryAskNew(0, 0)
    /\ files = NoFiles
    /\ log = << >>
    /\ clock = StartOfDay

(* documents a directory may hold before the first run: the mdBook's own   *)
(* SUMMARY.md as line 146 would seed it, a SUMMARY.md without a            *)
(* "Daily News" item, and an index that starts as line 229 would seed it   *)
PlainSummary ==
    <<<<"# Summary">>, NL, NL, <<"[", "Home", "]", "(", "./home.md", ")">>, NL>>

ExistingDirs ==
    {NoFiles,
     [NoFiles EXCEPT !.summary = Some(SummarySeed), !.daily = Some(DailySeed)],
     [NoFiles EXCEPT !.summary = Some(PlainSummary)]}

(* the first invocation has reached the sinks; the directory may hold      *)
(* documents already                                                       *)
InitDocs ==
    /\ articles = << >>
    /\ script = << >>
    /\ tasks = << >>
    /\ results = << >>
    /\ \E e \in Editions : front_page = e
    /\ counts = [successful |-> Len(front_page.articles), failed |-> 0]
    /\ mainpc = "toc"
    /\ history = << >>
    /\ api = RetryAskNew(0, 0)
    /\ \E fs \in ExistingDirs : files = fs
    /\ log = << >>
    /\ clock = StartOfDay

SpecRetry == InitRetry /\ [][NextRetry]_vars

SpecIndex == InitIndex /\ [][NextIndex]_vars

SpecTask == InitTask /\ [][NextFan]_vars

SpecFan == InitFan /\ [][NextFan]_vars

SpecCeil == InitCeil /\ [][NextOnce]_vars

SpecSiblings == InitSiblings /\ [][NextOnce]_vars

SpecDocs == InitDocs /\ [][NextIndex]_vars

SpecCounts == InitCounts /\ [][NextOnce]_vars

SpecClock == InitClock /\ [][NextClock]_vars

SpecMain == InitMain /\ [][NextMain]_vars

(* one invocation in which a step is taken whenever one can be: the        *)
(* runtime polls every ready task and every call and sleep comes to an end *)
SpecFair == InitSiblings /\ [][NextOnce]_vars /\ WF_vars(NextOnce)

SpecDedupe == InitDedupe /\ [][NextOnce]_vars

----------------------------------------------------------------------------
(* Helpers of the properties *)

SeqToBag(q) ==
    [x \in {q[i] : i \in DOMAIN q} |-> Cardinality({i \in DOMAIN q : q[i] = x})]

Ended(t) == t.pc \in {"done", "panicked"}

(* what one article must come to, from its script alone *)
ExpectedOutcome(raw, sc) ==
    LET kept(id) == Some([source |-> Some(raw.source), content |-> Some(raw.content),
                          payload |-> id])
    IN IF sc.fails[1] > DEFAULT_MAX_RETRIES THEN None
       ELSE IF sc.resp[1].json = "valid" THEN kept(sc.resp[1].id)
       ELSE IF /\ sc.resp[1].json = "eof"
               /\ sc.fails[2] <= DEFAULT_MAX_RETRIES
               /\ sc.resp[2].json = "valid"
            THEN kept(sc.resp[2].id)
       ELSE None

(* what of an enriched article identifies its input and its response *)
Core(a) == [source |-> a.source, content |-> a.content, payload |-> a.payload]

Cores(q) == [k \in DOMAIN q |-> Core(q[k])]

ExpectedSuccesses ==
    Flatten([i \in DOMAIN articles |-> ExpectedOutcome(articles[i], script[i])])

LastRun == history[Len(history)]

TwoRunsProcessed ==
    mainpc = "processed" /\ history # << >> /\ LastRun.end = "processed"

(* the number of lines of document c that read body once trimmed *)
CountLines(c, body) ==
    Cardinality({i \in 1..Len(Lines(c)) : Trim(Lines(c)[i]) = Trim(body)})

EditionOf(d, slot) == [local_date |-> d, time_of_day |-> slot, articles |-> << >>]

----------------------------------------------------------------------------
C2_RetryExhaustion ==
    (api.pc = "panicked" \/ (api.pc = "returned" /\ ~api.ret.ok)) =>
        /\ api.pc = "returned"
        /\ api.calls = api.max_retries + 1
        /\ api.sleeps = api.max_retries
        /\ api.ret.val.call = api.calls

(* C3: each outline document holds at most one date heading per date and   *)
(* at most one edition entry per (date, time slot).                        *)
C3_OneEntryPerEdition ==
    \A k \in 1..MaxDates, slot \in Slots :
        LET d == DateName[k]
            e == EditionOf(d, slot)
            file == MarkdownFilename(e)
        IN /\ TocExists(files, d) =>
                /\ CountLines(files.toc[d], TocHeader(d)) <= 1
                /\ CountLines(files.toc[d], TocEditionLine(e, file)) <= 1
           /\ files.summary.some =>
                /\ CountLines(files.summary.val, SummaryDateHeading(d)) <= 1
                /\ CountLines(files.summary.val, SummaryEditionHeading(e, file)) <= 1
           /\ files.daily.some =>
                /\ CountLines(files.daily.val, DailyDateHeading(d)) <= 1
                /\ CountLines(files.daily.val, DailyEditionEntry(e, file)) <= 1

(* C4: from an absent document, updating twice with the same edition gives *)
(* the same bytes as updating once, for each of the three documents.       *)
C4_TwiceIsOnce ==
    (mainpc = "exit" /\ Len(history) = 1 /\ history[1].front_page = front_page) =>
        LET file == MarkdownFilename(front_page)
        IN /\ files.toc = update_date_toc_file(NoFiles, front_page, file).toc
           /\ files.summary = update_summary_md(NoFiles, front_page, file).summary
           /\ files.daily = update_daily_news_index(NoFiles, front_page, file).daily

(* C5: the enrichment of an article never panics, whatever the capability  *)
(* answers: the task ends with an article or with an empty result.         *)
C5_NeverRaises ==
    /\ mainpc # "panicked"
    /\ \A i \in DOMAIN tasks : tasks[i].pc # "panicked"

(* C6: ask_with_backoff is invoked at most twice per article; the second   *)
(* invocation happens exactly when the first response parsed as truncated; *)
(* when the second call fails or its response does not parse, the task     *)
(* ends with an empty result.                                              *)
C6_ReaskOnce ==
    \A i \in DOMAIN tasks :
        LET t == tasks[i]
            first_truncated == /\ t.response_json.some
                               /\ t.response_json.val.json = "eof"
        IN /\ t.askNo <= 2
           /\ t.askNo = 2 => first_truncated
           /\ (Ended(t) /\ first_truncated) => t.askNo = 2
           /\ (Ended(t) /\ t.askNo = 2 /\ ~(t.ask.ret.ok /\ t.ask.ret.val.json = "valid"))
                => (t.pc = "done" /\ ~t.outcome.some)

(* C7: whenever the fan-out is over, it has yielded one result per input   *)
(* article and every task has run to its result.                           *)
C7_OneResultPerArticle ==
    mainpc \in {"processed", "panicked"} =>
        /\ Len(results) = Len(articles)
        /\ \A i \in DOMAIN tasks : tasks[i].pc = "done"

C10_AtMostTwelveInFlight ==
    /\ [](/\ Cardinality(InFlight(tasks)) <= PARALLEL_BATCH_SIZE
          /\ \A i \in DOMAIN tasks :
                tasks[i].pc # "pending" =>
                    Cardinality({j \in 1..(i - 1) : tasks[j].pc = "done"})
                        >= i - PARALLEL_BATCH_SIZE)
    /\ [][\A i \in DOMAIN tasks :
            (tasks[i].pc = "pending" /\ tasks'[i].pc = "running") =>
                \/ mainpc = "processing"
                \/ \E j \in DOMAIN tasks : tasks[j].pc = "running" /\ tasks'[j].pc = "done"
         ]_vars

(* twelve in flight, one of them asleep in its backoff, the thirteenth     *)
(* among them                                                              *)
C10_Witness ==
    /\ Cardinality(InFlight(tasks)) = PARALLEL_BATCH_SIZE
    /\ \E i \in InFlight(tasks) : tasks[i].ask.pc = "sleeping"
    /\ tasks[PARALLEL_BATCH_SIZE + 1].pc = "running"

(* C13: every pre-jitter delay RetryAsk computes, for attempt a, is        *)
(* min(base_delay * 2^(a-1), max_delay); the delays of successive attempts *)
(* never decrease and never pass max_delay; and the computation always     *)
(* yields a delay, whatever the attempt number.                            *)
C13_DelayCappedExponential ==
    /\ api.pc # "panicked"
    /\ \A a \in 1..Len(api.delays) :
          /\ api.delays[a] = backoff_delay(api.base_delay, a - 1, api.max_delay)
          /\ api.delays[a] <= MAX_DELAY_MS
          /\ a > 1 => api.delays[a] >= api.delays[a - 1]

(* C14: under ask_with_backoff the pre-jitter delays after failed attempts *)
(* 1 to 5 are 1 s, 2 s, 4 s, 8 s, 16 s, and every suspension lasts its     *)
(* pre-jitter delay plus 0 to 250 ms, hence no more than 30.25 s.          *)
C14_DefaultDelays ==
    \A i \in DOMAIN tasks :
        LET r == tasks[i].ask
            n == Len(r.delays)
        IN /\ n <= 5
           /\ \A a \in 1..n : r.delays[a] = <<1000, 2000, 4000, 8000, 16000>>[a]
           /\ r.pc = "sleeping" =>
                /\ r.sleep.some
                /\ r.sleep.val - r.delays[n] \in 0..250
                /\ r.sleep.val <= 30250

(* the fifth failure of a call is being slept out with the largest jitter *)
C14_Witness ==
    \E i \in DOMAIN tasks :
        /\ tasks[i].ask.pc = "sleeping"
        /\ tasks[i].ask.attempt = 5
        /\ tasks[i].ask.sleep = Some(16250)

(* C15: RetryAsk::ask never stops short of a success that is still within  *)
(* max_retries + 1 calls, and when the wrapped call succeeds on its k-th   *)
(* call it returns that response after k calls and k - 1 sleeps, none of   *)
(* them pending.                                                           *)
C15_ReturnsAtFirstSuccess ==
    /\ api.pc # "panicked"
    /\ (api.pc = "returned" /\ api.ret.ok) =>
          /\ api.ret.val.id = api.calls
          /\ api.calls <= api.max_retries + 1
          /\ api.sleeps = api.calls - 1
          /\ ~api.sleep.some

(* the lines of document c hold date_heading once, the two entries right   *)
(* beneath it in this order, and no further entry indented by ws after     *)
(* them; the entries occur nowhere else                                    *)
OneHeadingTwoEntries(c, date_heading, first, second, ws) ==
    LET ls == Lines(c)
        hits == {i \in 1..Len(ls) : Trim(ls[i]) = Trim(date_heading)}
    IN /\ Cardinality(hits) = 1
       /\ \A h \in hits :
            /\ h + 2 <= Len(ls)
            /\ ls[h + 1] = first
            /\ ls[h + 2] = second
            /\ h + 3 <= Len(ls) => ~StartsWith(ls[h + 3], <<ws, "- ">>)
       /\ CountLines(c, first) = 1
       /\ CountLines(c, second) = 1

MorningThenEvening ==
    /\ mainpc = "exit"
    /\ Len(history) = 1
    /\ history[1].front_page.time_of_day = "morning"
    /\ front_page.time_of_day = "evening"
    /\ history[1].front_page.local_date = front_page.local_date

(* C12: after a morning and then an evening edition of one date, starting  *)
(* with no documents, SUMMARY.md and daily_news.md each hold one heading   *)
(* for the date with the morning entry and then the evening entry right    *)
(* beneath it.                                                             *)
C12_OneHeadingTwoEditions ==
    MorningThenEvening =>
        LET m == history[1].front_page
            e == front_page
            d == e.local_date
        IN /\ files.summary.some
           /\ OneHeadingTwoEntries(files.summary.val, SummaryDateHeading(d),
                    SummaryEditionHeading(m, MarkdownFilename(m)),
                    SummaryEditionHeading(e, MarkdownFilename(e)), "        ")
           /\ files.daily.some
           /\ OneHeadingTwoEntries(files.daily.val, DailyDateHeading(d),
                    DailyEditionEntry(m, MarkdownFilename(m)),
                    DailyEditionEntry(e, MarkdownFilename(e)), "    ")

(* both editions carry articles *)
C12_Witness ==
    /\ MorningThenEvening
    /\ front_page.articles # << >>
    /\ history[1].front_page.articles # << >>

(* the first call of task i has exhausted its retries *)
FirstCallExhausted(i) ==
    /\ tasks[i].askNo = 1
    /\ tasks[i].ask.pc = "returned"
    /\ ~tasks[i].ask.ret.ok

(* C11: when the fan-out is over, every article that its own responses     *)
(* lead to a success has run to completion with that success, and the      *)
(* edition holds it, whatever became of the other articles.                *)
C11_SiblingsUnaffected ==
    mainpc \in {"processed", "panicked"} =>
        \A i \in DOMAIN tasks :
            LET want == ExpectedOutcome(articles[i], script[i])
            IN want.some =>
                /\ tasks[i].pc = "done"
                /\ tasks[i].outcome.some
                /\ Core(tasks[i].outcome.val) = want.val
                /\ \E k \in DOMAIN front_page.articles :
                        front_page.articles[k] = tasks[i].outcome.val

(* C16: a first response that fails to parse for another reason than       *)
(* truncation ends the task with an empty result after the one call to     *)
(* ask_with_backoff.                                                       *)
C16_MalformedDroppedNoReask ==
    \A i \in DOMAIN tasks :
        LET t == tasks[i]
        IN (t.response_json.some /\ t.response_json.val.json \in {"syntax", "data"}) =>
            /\ t.askNo = 1
            /\ t.pc = "done"
            /\ ~t.outcome.some

(* C17: when the first call to ask_with_backoff has exhausted its retries, *)
(* the task is done with an empty result, nothing was parsed, there is no  *)
(* re-ask, and the run goes on: it has not aborted unless another task     *)
(* did.                                                                    *)
C17_ExhaustedYieldsNone ==
    \A i \in DOMAIN tasks :
        (script[i].fails[1] > DEFAULT_MAX_RETRIES /\ tasks[i].ask.pc = "returned") =>
            /\ tasks[i].pc = "done"
            /\ ~tasks[i].outcome.some
            /\ ~tasks[i].response_json.some
            /\ ~tasks[i].parsed.some
            /\ tasks[i].askNo = 1
            /\ tasks[i].ask.calls = DEFAULT_MAX_RETRIES + 1
            /\ mainpc \in {"fanout", "processed"}
                \/ \E j \in DOMAIN tasks : j # i /\ tasks[j].pc = "panicked"

(* one article has exhausted its retries and the run has finished with the *)
(* other article in the edition                                            *)
C17_Witness ==
    /\ mainpc = "processed"
    /\ \E i \in DOMAIN tasks : FirstCallExhausted(i)
    /\ Len(front_page.articles) = 1

(* C18: when the first response is truncated and the re-ask returns a      *)
(* well-formed response, the task ends with an article made of the second  *)
(* response: its sub-collections are the deduplicated ones of the second   *)
(* document and nothing else but source and content is added.              *)
C18_SecondResponseOnly ==
    \A i \in DOMAIN tasks :
        LET t == tasks[i]
            second == script[i].resp[2]
        IN (Ended(t) /\ t.askNo = 2 /\ t.ask.ret.ok /\ t.ask.ret.val.json = "valid") =>
            /\ t.pc = "done"
            /\ t.outcome.some
            /\ t.ask.ret.val = second
            /\ t.outcome.val.payload = second.id
            /\ t.outcome.val.tags = second.doc.tags
            /\ t.outcome.val.keyTakeAways
                    = unique(second.doc.keyTakeAways)
            /\ t.outcome.val.namedEntities
                    = unique_by(second.doc.namedEntities, "name")

(* the article was kept from a second response that differs from the first *)
C18_Witness ==
    \E i \in DOMAIN tasks :
        /\ tasks[i].pc = "done"
        /\ tasks[i].askNo = 2
        /\ tasks[i].outcome.some
        /\ tasks[i].response_json.val.json = "eof"
        /\ tasks[i].outcome.val.keyTakeAways
                # unique(tasks[i].response_json.val.doc.keyTakeAways)

(* C19: the article a task yields carries the source and the content of    *)
(* that task's raw article, and the edition of a finished run consists of  *)
(* the articles the tasks yielded.                                         *)
C19_StampedFromOwnInput ==
    /\ \A i \in DOMAIN tasks :
          tasks[i].outcome.some =>
              /\ tasks[i].outcome.val.source = Some(articles[i].source)
              /\ tasks[i].outcome.val.content = Some(articles[i].content)
    /\ mainpc = "processed" =>
          SeqToBag(front_page.articles)
              = SeqToBag(Flatten([i \in DOMAIN tasks |-> tasks[i].outcome]))

(* two different raw articles were enriched, the second one first *)
C19_Witness ==
    /\ mainpc = "processed"
    /\ Len(front_page.articles) = 2
    /\ articles[1] # articles[2]
    /\ front_page.articles[1].source = Some(articles[2].source)

(* keys[k] being the key of in[k]: out holds, in their order, exactly the  *)
(* elements of in that no earlier element shares its key with              *)
FirstOccurrences(in, out, keys) ==
    LET firsts == {k \in 1..Len(in) : \A m \in 1..(k - 1) : keys[m] # keys[k]}
    IN /\ Len(out) = Cardinality(firsts)
       /\ \E f \in [1..Len(out) -> firsts] :
            /\ \A a, b \in 1..Len(out) : a < b => f[a] < f[b]
            /\ \A a \in 1..Len(out) : out[a] = in[f[a]]

(* C20: in the article a task yields, each of keyTakeAways, namedEntities,  *)
(* importantDates and importantTimeframes holds, in their original order,  *)
(* exactly the first element of each key of the parsed response; tags are  *)
(* as returned.                                                            *)
C20_DedupeKeepsFirst ==
    \A i \in DOMAIN tasks :
        tasks[i].outcome.some =>
            LET in == tasks[i].ask.ret.val.doc
                out == tasks[i].outcome.val
            IN /\ FirstOccurrences(in.keyTakeAways, out.keyTakeAways, in.keyTakeAways)
               /\ FirstOccurrences(in.namedEntities, out.namedEntities,
                    [k \in DOMAIN in.namedEntities |-> in.namedEntities[k].name])
               /\ FirstOccurrences(in.importantDates, out.importantDates,
                    [k \in DOMAIN in.importantDates |->
                        in.importantDates[k].descriptionOfWhyDateIsRelevant])
               /\ FirstOccurrences(in.importantTimeframes, out.importantTimeframes,
                    [k \in DOMAIN in.importantTimeframes |->
                        in.importantTimeframes[k].descriptionOfWhyTimeFrameIsRelevant])
               /\ out.tags = in.tags

(* three entities, the first and the last of one name, came down to two *)
C20_Witness ==
    \E i \in DOMAIN tasks :
        /\ tasks[i].outcome.some
        /\ Len(tasks[i].ask.ret.val.doc.namedEntities) = 3
        /\ tasks[i].ask.ret.val.doc.namedEntities[1].name
                = tasks[i].ask.ret.val.doc.namedEntities[3].name
        /\ tasks[i].ask.ret.val.doc.namedEntities[1]
                # tasks[i].ask.ret.val.doc.namedEntities[3]
        /\ Len(tasks[i].outcome.val.namedEntities) = 2

(* the first line of ls that reads date_heading once trimmed *)
HeadingAt(ls, date_heading) ==
    Min({i \in 1..Len(ls) : Trim(ls[i]) = Trim(date_heading)})

HasHeading(ls, date_heading) ==
    \E i \in 1..Len(ls) : Trim(ls[i]) = Trim(date_heading)

(* the last line of the contiguous block of items indented by ws beneath   *)
(* line i (i itself when the block is empty)                               *)
BlockEnd(ls, i, ws) ==
    CHOOSE j \in i..Len(ls) :
        /\ \A k \in (i + 1)..j : StartsWith(ls[k], <<ws, "- ">>)
        /\ j = Len(ls) \/ ~StartsWith(ls[j + 1], <<ws, "- ">>)

(* the block beneath the date heading holds the edition entry *)
HasEntry(ls, date_heading, edition, ws) ==
    /\ HasHeading(ls, date_heading)
    /\ LET i == HeadingAt(ls, date_heading)
       IN \E j \in (i + 1)..BlockEnd(ls, i, ws) : Trim(ls[j]) = Trim(edition)

(* C21: when SUMMARY.md, or daily_news.md, already holds the date heading  *)
(* with the edition entry in the block beneath it, the update leaves the   *)
(* document byte-identical.                                                *)
C21_NoOpKeepsBytes ==
    [][LET file == MarkdownFilename(front_page)
           d == front_page.local_date
       IN /\ ( /\ mainpc = "summary"
               /\ files.summary.some
               /\ HasEntry(Lines(files.summary.val), SummaryDateHeading(d),
                           SummaryEditionHeading(front_page, file), "        ") )
             => files'.summary = files.summary
          /\ ( /\ mainpc = "daily"
               /\ files.daily.some
               /\ HasEntry(Lines(files.daily.val), DailyDateHeading(d),
                           DailyEditionEntry(front_page, file), "    ") )
             => files'.daily = files.daily
      ]_vars

(* C22: when SUMMARY.md, or daily_news.md, holds the date heading and the  *)
(* block beneath it does not hold the edition entry, the lines after the   *)
(* update are the lines before it with the entry inserted right after the  *)
(* last line of that block.                                                *)
C22_InsertsAtEndOfBlock ==
    [][LET file == MarkdownFilename(front_page)
           d == front_page.local_date
       IN /\ ( /\ mainpc = "summary"
               /\ files.summary.some
               /\ HasHeading(Lines(files.summary.val), SummaryDateHeading(d))
               /\ ~HasEntry(Lines(files.summary.val), SummaryDateHeading(d),
                            SummaryEditionHeading(front_page, file), "        ") )
             => LET ls == Lines(files.summary.val)
                    i == HeadingAt(ls, SummaryDateHeading(d))
                IN /\ files'.summary.some
                   /\ Lines(files'.summary.val)
                        = Insert(ls, BlockEnd(ls, i, "        ") + 1,
                                 SummaryEditionHeading(front_page, file))
          /\ ( /\ mainpc = "daily"
               /\ files.daily.some
               /\ HasHeading(Lines(files.daily.val), DailyDateHeading(d))
               /\ ~HasEntry(Lines(files.daily.val), DailyDateHeading(d),
                            DailyEditionEntry(front_page, file), "    ") )
             => LET ls == Lines(files.daily.val)
                    i == HeadingAt(ls, DailyDateHeading(d))
                IN /\ files'.daily.some
                   /\ Lines(files'.daily.val)
                        = Insert(ls, BlockEnd(ls, i, "    ") + 1,
                                 DailyEditionEntry(front_page, file))
      ]_vars

(* a third edition has been entered beneath the heading of its date, which *)
(* the second edition had written, in documents that hold an earlier date  *)
C22_Witness ==
    /\ mainpc = "exit"
    /\ Len(history) = 2
    /\ history[1].front_page.local_date # front_page.local_date
    /\ history[2].front_page.local_date = front_page.local_date
    /\ history[2].front_page.time_of_day # front_page.time_of_day
    /\ files.summary.some
    /\ HasEntry(Lines(files.summary.val), SummaryDateHeading(front_page.local_date),
                SummaryEditionHeading(front_page, MarkdownFilename(front_page)),
                "        ")
    /\ HasEntry(Lines(files.daily.val), DailyDateHeading(front_page.local_date),
                DailyEditionEntry(front_page, MarkdownFilename(front_page)), "    ")

(* what update_summary_md starts from: the document, or the seed *)
SummaryBefore(fs) == IF fs.summary.some THEN fs.summary.val ELSE SummarySeed

(* C23: when SUMMARY.md holds no heading for the date of the edition, the  *)
(* lines after the update are the lines before it with the date heading    *)
(* and, right after it, the edition entry inserted right after the         *)
(* "- [Daily News]" line.                                                  *)
C23_HeadingAfterAnchor ==
    [][LET file == MarkdownFilename(front_page)
           date_heading == SummaryDateHeading(front_page.local_date)
           ls == Lines(SummaryBefore(files))
       IN (mainpc = "summary" /\ ~HasHeading(ls, date_heading)) =>
            /\ files'.summary.some
            /\ \E a \in 1..Len(ls) :
                 /\ Contains(ls[a], <<"- ", "[", "Daily News", "]">>)
                 /\ Lines(files'.summary.val)
                      = Insert(Insert(ls, a + 1, date_heading), a + 2,
                               SummaryEditionHeading(front_page, file))
      ]_vars

(* document c starts with the line header and holds it nowhere else *)
HeaderOnceFirst(c, header) ==
    /\ Lines(c) # << >>
    /\ Lines(c)[1] = header
    /\ CountLines(c, header) = 1

(* C24: a document the program created starts with its header, and after   *)
(* any number of runs the header is its first line and occurs once.        *)
C24_HeaderOnceFirst ==
    /\ \A k \in 1..MaxDates :
          TocExists(files, DateName[k]) =>
              HeaderOnceFirst(files.toc[DateName[k]], TocHeader(DateName[k]))
    /\ files.summary.some => HeaderOnceFirst(files.summary.val, <<"# Summary">>)
    /\ files.daily.some => HeaderOnceFirst(files.daily.val, IndexHeader)

(* three runs have updated the three documents, all for one date *)
C24_Witness ==
    /\ mainpc = "exit"
    /\ Len(history) = 2
    /\ history[1].front_page.local_date = front_page.local_date
    /\ history[2].front_page.local_date = front_page.local_date
    /\ files.summary.some
    /\ files.daily.some

(* the heading of category c in a date TOC *)
TocCategoryLine(c, file) ==
    Item("\t", << >>, <<"**">> \o CategoryNames[c] \o <<"**">>,
         file \o <<"#">> \o slugify_title(CategoryNames[c]))

(* bl is the listing of the articles arts: the edition link, then one      *)
(* heading per category of arts in ascending order, each article on one    *)
(* line beneath the heading of its category, in the order of arts          *)
IsListing(bl, arts, link, file) ==
    LET cats == {arts[k].category : k \in DOMAIN arts}
        H == {x \in 2..Len(bl) : \E c \in cats : bl[x] = TocCategoryLine(c, file)}
        A == (2..Len(bl)) \ H
        catAt(x) == CHOOSE c \in cats : bl[x] = TocCategoryLine(c, file)
        above(x) == CHOOSE h \in H : h < x /\ \A g \in H : g < x => g <= h
    IN /\ Len(bl) = 1 + Cardinality(cats) + Len(arts)
       /\ bl[1] = link
       /\ Cardinality(H) = Cardinality(cats)
       /\ \A c \in cats : \E x \in H : catAt(x) = c
       /\ \A x, y \in H : x < y => catAt(x) < catAt(y)
       /\ \E f \in [A -> DOMAIN arts] :
            /\ \A x, y \in A : x # y => f[x] # f[y]
            /\ \A x \in A :
                 /\ bl[x] = TocArticleLine(arts[f[x]], file)
                 /\ \E h \in H : h < x
                 /\ catAt(above(x)) = arts[f[x]].category
            /\ \A x, y \in A : (x < y /\ above(x) = above(y)) => f[x] < f[y]

(* C25: what one update appends to the date TOC, after the header of a new *)
(* document, is the listing of the edition's articles, and what the        *)
(* document held is kept in front of it.                                   *)
C25_ListingByCategory ==
    [][mainpc = "toc" =>
         LET d == front_page.local_date
             file == MarkdownFilename(front_page)
             old == IF TocExists(files, d) THEN files.toc[d] ELSE << >>
             new == files'.toc[d]
             app == Lines(SubSeq(new, Len(old) + 1, Len(new)))
             bl == IF TocExists(files, d) THEN app ELSE SubSeq(app, 3, Len(app))
         IN /\ SubSeq(new, 1, Len(old)) = old
            /\ new # << >> /\ new[Len(new)] = NL
            /\ IsListing(bl, front_page.articles, TocEditionLine(front_page, file), file)
      ]_vars

(* an edition of three articles, the first and the third of one category   *)
(* and the second of a lower one, has been listed                          *)
C25_Witness ==
    /\ mainpc = "summary"
    /\ Len(front_page.articles) = 3
    /\ front_page.articles[1].category = front_page.articles[3].category
    /\ front_page.articles[2].category < front_page.articles[1].category
    /\ TocExists(files, front_page.local_date)
    /\ Len(history) >= 1

(* the editions that have updated the date TOC so far, oldest first *)
TocRuns ==
    [k \in 1..Len(history) |-> history[k].front_page]
        \o (IF mainpc = "toc" THEN << >> ELSE <<front_page>>)

(* the number of lines an edition's listing takes beneath its link *)
ListingSize(fp) ==
    Cardinality({fp.articles[k].category : k \in DOMAIN fp.articles}) + Len(fp.articles)

RECURSIVE SumListings(_, _, _)
SumListings(runs, d, slot) ==
    IF runs = << >> THEN 0
    ELSE (IF Head(runs).local_date = d /\ Head(runs).time_of_day = slot
          THEN ListingSize(Head(runs)) ELSE 0)
         + SumListings(Tail(runs), d, slot)

(* C26: after k updates of a date TOC with one (date, time slot), the      *)
(* document holds the listings of all k updates and exactly one edition    *)
(* link for that (date, time slot).                                        *)
C26_ListingsRepeatLinkOnce ==
    \A n \in 1..MaxDates, slot \in Slots :
        LET d == DateName[n]
            e == EditionOf(d, slot)
            file == MarkdownFilename(e)
            k == Cardinality({r \in DOMAIN TocRuns :
                    TocRuns[r].local_date = d /\ TocRuns[r].time_of_day = slot})
        IN k >= 1 =>
            /\ TocExists(files, d)
            /\ Cardinality({x \in 1..Len(Lines(files.toc[d])) :
                    /\ Lines(files.toc[d])[x] # EmptyLine
                    /\ Head(Lines(files.toc[d])[x]) \in {"\t", "\t\t"}
                    /\ Contains(Lines(files.toc[d])[x], file \o <<"#">>)})
                 = SumListings(TocRuns, d, slot)
            /\ CountLines(files.toc[d], TocEditionLine(e, file)) = 1

(* C29: when the processing phase is over, the edition holds as many       *)
(* articles as enrichments succeeded, the failure count is the number of   *)
(* enrichments that failed, and the two add up to the number of articles;  *)
(* the three articles of the example give 2 articles and 1 failure.        *)
C29_CountsAddUp ==
    mainpc = "processed" =>
        LET N == Len(articles)
            succeeded == {i \in 1..N : ExpectedOutcome(articles[i], script[i]).some}
            failed == {i \in 1..N : ~tasks[i].outcome.some}
        IN /\ Len(front_page.articles) = Cardinality(succeeded)
           /\ counts.successful = Len(front_page.articles)
           /\ counts.failed = Cardinality(failed)
           /\ Len(front_page.articles) + counts.failed = N
           /\ script = ExampleScripts =>
                (Len(front_page.articles) = 2 /\ counts.failed = 1)

(* the example has been processed; its failure was not the last result *)
C29_Witness ==
    /\ mainpc = "processed"
    /\ script = ExampleScripts
    /\ Len(results) = 3
    /\ results[3].some
    /\ counts = [successful |-> 2, failed |-> 1]

(* C30: the time slot of a front page built at local time t is morning     *)
(* when t is before 08:00:00, afternoon when t is at or after 08:00:00 and *)
(* before 16:00:00, and evening from 16:00:00 on; it is one of the three.  *)
C30_SlotsPartitionDay ==
    mainpc = "processing" =>
        LET t == clock.secs
            h == t \div 3600
            slot == front_page.time_of_day
        IN /\ slot \in Slots
           /\ slot = "morning" <=> (0 <= t /\ h < 8)
           /\ slot = "afternoon" <=> (8 <= h /\ h < 16)
           /\ slot = "evening" <=> (16 <= h)
           /\ t = (8 * 3600) => slot = "afternoon"
           /\ t = (16 * 3600) => slot = "evening"
           /\ t = (8 * 3600) - 1 => slot = "morning"
           /\ t = (16 * 3600) - 1 => slot = "afternoon"

(* a front page has been built at 08:00:00 sharp *)
C30_Witness ==
    /\ mainpc = "processing"
    /\ clock.secs = from_hms_opt(8, 0, 0)
    /\ front_page.time_of_day = "afternoon"

SinkOrder == <<"json", "markdown", "toc", "summary", "daily">>

(* where main() stands after the k-th sink *)
AfterSink == <<"markdown", "toc", "summary", "daily", "exit">>

(* the output of a sink of this run is in its directory *)
Present(sink) ==
    LET d == front_page.local_date
        file == MarkdownFilename(front_page)
    IN CASE sink = "json" -> files.json # {}
         [] sink = "markdown" -> file \in files.md
         [] sink = "toc" ->
                TocExists(files, d)
                /\ CountLines(files.toc[d], TocEditionLine(front_page, file)) >= 1
         [] sink = "summary" ->
                files.summary.some
                /\ CountLines(files.summary.val, SummaryEditionHeading(front_page, file)) >= 1
         [] sink = "daily" ->
                files.daily.some
                /\ CountLines(files.daily.val, DailyEditionEntry(front_page, file)) >= 1

(* C27: once the first sink has run, main() has run the sinks in their     *)
(* order, one after another, whatever failed, and stands right after the   *)
(* last one it ran; what a sink has written stays written.                 *)
C27_SinksIndependent ==
    /\ Len(log) <= Len(SinkOrder)
    /\ \A k \in DOMAIN log :
          /\ log[k].sink = SinkOrder[k]
          /\ log[k].ok => Present(log[k].sink)
    /\ log # << >> => mainpc = AfterSink[Len(log)]
    /\ mainpc \in {"exit", "failed", "panicked"} =>
          (log = << >> \/ Len(log) = Len(SinkOrder))

(* the run is over: the JSON write and the date TOC update failed, the     *)
(* Markdown write and the two later updates succeeded                      *)
C27_Witness ==
    /\ mainpc = "exit"
    /\ Len(log) = 5
    /\ ~log[1].ok /\ log[2].ok /\ ~log[3].ok /\ log[4].ok /\ log[5].ok
    /\ Present("markdown") /\ Present("summary") /\ Present("daily")
    /\ files.json = {}

(* C28: the run ends with a failure exactly when every article failed      *)
(* enrichment or an output directory (JSON or Markdown) is unusable.       *)
C28_FailsWhenAllFailOrDirUnusable ==
    mainpc \in {"exit", "failed"} =>
        LET all_failed == mainpc = "exit" /\ Len(articles) >= 1 /\ counts.successful = 0
            unusable == ~files.json_dir_writable \/ ~files.md_dir_writable
        IN (mainpc = "failed") <=> (all_failed \/ unusable)

(* C31: the JSON of an edition is written to                               *)
(* {json_output_dir}/{local_date}/{time_of_day}.json, local_date and       *)
(* time_of_day being those of the edition, whatever the time of the write. *)
C31_JsonPathOfEdition ==
    \A p \in files.json :
        p = [dir |-> front_page.local_date, file |-> <<front_page.time_of_day, ".json">>]

(* the sinks of log that are outline updates, in their order *)
OutlineEvents == SelectSeq(log, LAMBDA e : e.sink \in {"toc", "summary", "daily"})

(* C32: a sink runs, and an output exists, only when every enrichment task *)
(* has resolved; the outline updates of a run are the date TOC, then       *)
(* SUMMARY.md, then daily_news.md, each once, and each document changes    *)
(* only in the step of its own update.                                     *)
C32_SinksAfterTasksOutlinesInTurn ==
    /\ []( (log # << >> \/ mainpc \in {"markdown", "toc", "summary", "daily", "exit"}
                \/ files.json # {} \/ files.md # {} \/ files.summary.some
                \/ files.daily.some \/ DOMAIN files.toc # {})
            => /\ \A i \in DOMAIN tasks : tasks[i].pc = "done"
               /\ Len(tasks) = Len(script)
               /\ Len(results) = Len(tasks) )
    /\ []( /\ \A k \in DOMAIN OutlineEvents :
                OutlineEvents[k].sink = <<"toc", "summary", "daily">>[k]
           /\ Len(OutlineEvents) <= 3
           /\ mainpc = "exit" => Len(OutlineEvents) = 3 )
    /\ [][ /\ files'.toc # files.toc => (mainpc = "toc" /\ mainpc' = "summary")
           /\ files'.summary # files.summary => (mainpc = "summary" /\ mainpc' = "daily")
           /\ files'.daily # files.daily => (mainpc = "daily" /\ mainpc' = "exit")
         ]_vars

(* a run of two articles is over, its three outline updates succeeded *)
C32_Witness ==
    /\ mainpc = "exit"
    /\ Len(articles) = 2
    /\ Len(results) = 2
    /\ Len(OutlineEvents) = 3
    /\ \A k \in 1..3 : OutlineEvents[k].ok
    /\ Present("toc") /\ Present("summary") /\ Present("daily")

(* C33: every article causes at most two asks of at most max_retries + 1   *)
(* calls each, and the processing phase eventually ends with every article *)
(* resolved.                                                               *)
C33_BoundedCallsAndFinish ==
    /\ [](\A i \in DOMAIN tasks :
            /\ tasks[i].askNo <= 2
            /\ tasks[i].ask.calls <= DEFAULT_MAX_RETRIES + 1)
    /\ <>(mainpc = "processed" /\ \A i \in DOMAIN tasks : tasks[i].pc = "done")

(* the dates of the runs that have updated daily_news.md, oldest run first *)
DailyRunDates ==
    [k \in 1..Len(history) |-> history[k].front_page.local_date]
        \o (IF mainpc = "exit" THEN <<front_page.local_date>> ELSE << >>)

(* the dates of the date headings of daily_news.md, from top to bottom *)
DailyHeadingDates ==
    LET heads == SelectSeq(Lines(files.daily.val),
                    LAMBDA l : \E n \in 1..Len(DateName) : l = DailyDateHeading(DateName[n]))
    IN [k \in 1..Len(heads) |->
            CHOOSE d \in {DateName[n] : n \in 1..Len(DateName)} :
                heads[k] = DailyDateHeading(d)]

(* the runs so far were for distinct dates, in chronological order *)
RunsChronological ==
    /\ files.daily.some
    /\ DailyRunDates # << >>
    /\ \A a, b \in DOMAIN DailyRunDates :
          a < b => \E m, n \in 1..Len(DateName) :
                      /\ m < n
                      /\ DailyRunDates[a] = DateName[m]
                      /\ DailyRunDates[b] = DateName[n]

Reverse(q) == [k \in 1..Len(q) |-> q[Len(q) + 1 - k]]

(* C34 (as stated): after runs for distinct dates in chronological order,  *)
(* from an absent daily_news.md, the date headings are in chronological    *)
(* order from top to bottom.                                               *)
C34_DatesChronological ==
    (mainpc = "exit" /\ RunsChronological) => DailyHeadingDates = DailyRunDates

(* C34 (amended): after such runs the header is the first line and the     *)
(* date headings are in reverse chronological order from top to bottom,    *)
(* the newest date right beneath the header and an empty line.             *)
C34_DatesNewestFirst ==
    (mainpc = "exit" /\ RunsChronological) =>
        /\ DailyHeadingDates = Reverse(DailyRunDates)
        /\ Lines(files.daily.val)[1] = IndexHeader
        /\ Lines(files.daily.val)[2] = EmptyLine
        /\ Lines(files.daily.val)[3] = DailyDateHeading(front_page.local_date)

(* two runs, the second for a later date than the first *)
C34_Witness ==
    /\ mainpc = "exit"
    /\ RunsChronological
    /\ Len(DailyRunDates) >= 2

(* the front page of this run has been built *)
Built == front_page # NoFrontPage

AllResolved ==
    /\ Len(tasks) = Len(script)
    /\ Len(results) = Len(tasks)
    /\ \A i \in DOMAIN tasks : tasks[i].pc = "done"

KeyFields(fp) ==
    [local_date |-> fp.local_date, local_time |-> fp.local_time,
     time_of_day |-> fp.time_of_day]

(* C35 (as stated): the front page exists only once every enrichment task  *)
(* has resolved, and no field of it changes once it exists.                *)
C35_BuiltAfterEnrichment ==
    /\ [](Built => AllResolved)
    /\ [][Built => front_page' = front_page]_vars

(* C35 (amended): the front page is built once, before the first call to   *)
(* the capability; its local_date, local_time and time_of_day never change *)
(* afterwards; its articles are empty until the step that ends the         *)
(* processing phase and do not change after it.                            *)
C35_BuiltBeforeEnrichment ==
    /\ []( /\ Built <=> mainpc \notin {"start", "failed", "indexing", "frontpage"}
           /\ (Built /\ mainpc \in {"processing", "fanout", "panicked"})
                => front_page.articles = << >> )
    /\ [][ /\ (~Built /\ Built') =>
                /\ mainpc = "frontpage"
                /\ \A i \in DOMAIN tasks : tasks[i].pc = "pending" /\ tasks[i].ask.calls = 0
           /\ Built => KeyFields(front_page') = KeyFields(front_page)
           /\ (Built /\ front_page'.articles # front_page.articles) =>
                /\ mainpc \in {"processing", "fanout"}
                /\ mainpc' = "processed"
                /\ AllResolved'
         ]_vars

(* the front page exists while a call to the capability is pending, and    *)
(* an article has been resolved already                                    *)
C35_Witness ==
    /\ mainpc = "fanout"
    /\ Built
    /\ front_page.articles = << >>
    /\ \E i \in DOMAIN tasks : tasks[i].pc = "running" /\ tasks[i].ask.calls >= 1
    /\ \E i \in DOMAIN tasks : tasks[i].pc = "done" /\ tasks[i].outcome.some

(* the instants at which the front page of this run may have been taken:   *)
(* the clock as BuildFrontPage left it, or the second before it            *)
Instants ==
    LET before == IF clock.secs = 0
                  THEN [day |-> clock.day - 1, secs |-> from_hms_opt(24, 0, 0) - 1]
                  ELSE [clock EXCEPT !.secs = @ - 1]
    IN {c \in {clock, before} : c.day >= 1 /\ (c = clock \/ Advance(c) = clock)}

(* C36: the key fields of a front page describe one single instant:        *)
(* time_of_day is the slot of local_time and local_date is the calendar    *)
(* date at that local_time, also for a run that starts within a second of  *)
(* midnight, 08:00 or 16:00.                                               *)
C36_KeyFieldsOneInstant ==
    front_page # NoFrontPage =>
        \E c \in Instants :
            /\ front_page.local_date = DateName[c.day]
            /\ front_page.local_time = c.secs
            /\ front_page.time_of_day = time_of_day(c.secs)

(* C37: whenever update_summary_md, or update_daily_news_index, has        *)
(* returned success in this run, the document it wrote holds the entry of  *)
(* the edition in the block directly beneath the heading of its date,      *)
(* whatever the document held before.                                      *)
C37_SuccessMeansEntered ==
    LET file == MarkdownFilename(front_page)
        d == front_page.local_date
    IN /\ (\E k \in DOMAIN log : log[k] = Event("summary", TRUE)) =>
            /\ files.summary.some
            /\ HasEntry(Lines(files.summary.val), SummaryDateHeading(d),
                        SummaryEditionHeading(front_page, file), "        ")
       /\ (\E k \in DOMAIN log : log[k] = Event("daily", TRUE)) =>
            /\ files.daily.some
            /\ HasEntry(Lines(files.daily.val), DailyDateHeading(d),
                        DailyEditionEntry(front_page, file), "    ")

(* the key fields of the edition of date d and slot s *)
EditionKey(d, s) == [local_date |-> d, time_of_day |-> s]

(* line j of ls lies in the block of items indented by ws beneath the       *)
(* heading, and ls holds the heading                                        *)
InBlockOf(ls, j, date_heading, ws) ==
    /\ HasHeading(ls, date_heading)
    /\ LET i == HeadingAt(ls, date_heading)
       IN i < j /\ j <= BlockEnd(ls, i, ws)

(* C38: in SUMMARY.md and in daily_news.md, every edition entry line for a *)
(* date lies in the contiguous block directly beneath the heading of that  *)
(* date, and beneath the heading of no other date.                         *)
C38_EntriesBeneathOwnDate ==
    \A n \in 1..Len(DateName), s \in Slots :
        LET d == DateName[n]
            key == EditionKey(d, s)
            file == MarkdownFilename(key)
        IN /\ files.summary.some =>
                LET ls == Lines(files.summary.val)
                IN \A j \in 1..Len(ls) :
                      ls[j] = SummaryEditionHeading(key, file) =>
                        /\ InBlockOf(ls, j, SummaryDateHeading(d), "        ")
                        /\ \A m \in 1..Len(DateName) \ {n} :
                              ~InBlockOf(ls, j, SummaryDateHeading(DateName[m]), "        ")
           /\ files.daily.some =>
                LET ls == Lines(files.daily.val)
                IN \A j \in 1..Len(ls) :
                      ls[j] = DailyEditionEntry(key, file) =>
                        /\ InBlockOf(ls, j, DailyDateHeading(d), "    ")
                        /\ \A m \in 1..Len(DateName) \ {n} :
                              ~InBlockOf(ls, j, DailyDateHeading(DateName[m]), "    ")

(* three runs, two editions of one date and then one of another date:      *)
(* both documents hold the three entries                                   *)
C38_Witness ==
    /\ mainpc = "exit"
    /\ Len(history) = 2
    /\ history[1].front_page.local_date = history[2].front_page.local_date
    /\ history[1].front_page.time_of_day # history[2].front_page.time_of_day
    /\ history[2].front_page.local_date # front_page.local_date
    /\ \A fp \in {history[1].front_page, history[2].front_page, front_page} :
          /\ CountLines(files.summary.val,
                        SummaryEditionHeading(fp, MarkdownFilename(fp))) = 1
          /\ CountLines(files.daily.val,
                        DailyEditionEntry(fp, MarkdownFilename(fp))) = 1

(* C39: when the JSON output directory cannot be created or written at     *)
(* start-up, the run returns an error before the discovery of any URL, any *)
(* call to the capability and any write: no JSON, Markdown or outline      *)
(* document is created or modified.                                        *)
C39_UnwritableStopsAtStart ==
    ~files.json_dir_writable =>
        /\ mainpc \in {"start", "failed"}
        /\ articles = << >>
        /\ tasks = << >>
        /\ results = << >>
        /\ front_page = NoFrontPage
        /\ log = << >>
        /\ files.json = {}
        /\ files.md = {}
        /\ DOMAIN files.toc = {}
        /\ ~files.summary.some
        /\ ~files.daily.some

(* the run has returned the error of the start-up check, with articles to  *)
(* discover and a Markdown directory that could have been written          *)
C39_Witness ==
    /\ mainpc = "failed"
    /\ ~files.json_dir_writable
    /\ files.md_dir_writable
    /\ Len(script) >= 1
    /\ articles = << >>

(* the line of article a in the listing of the edition written to file, up *)
(* to the "#" of its link                                                  *)
TocLinePrefix(a, file) ==
    LET tag == source_tag(a)
    IN <<"\t\t", "- ">>
         \o (IF tag.some THEN <<" <small>", tag.val, "</small>", " - ">> ELSE <<" - ">>)
         \o <<"[">> \o a.title \o <<"]", "(">> \o file \o <<"#">>

(* the anchors the date TOC gives article a of the edition on the page *)
TocAnchors(a) ==
    LET file == MarkdownFilename(front_page)
        ls == Lines(files.toc[front_page.local_date])
        p == TocLinePrefix(a, file)
    IN {SubSeq(ls[k], Len(p) + 1, Len(ls[k]) - 1) :
            k \in {n \in 1..Len(ls) : StartsWith(ls[n], p)}}

(* the news source of an article: the site of its source URL *)
SourceSite(a) == IF a.source.some THEN a.source.val.host ELSE << >>

====
